---------------------------- MODULE Spec2Model ----------------------------
(***************************************************************************)
(* A model of the LLM evaluation framework: four heuristic scorers         *)
(* (relevance, accuracy, coherence, completeness) built on the shared      *)
(* text primitives of BaseEvaluator, the /evaluate aggregator of main.py   *)
(* and the demo's evaluate_answer.                                         *)
(*                                                                         *)
(* Texts are strings; a character is a string of length 1.  Numbers are    *)
(* exact rationals [n, d] with d > 0; a record with d = 0 stands for a     *)
(* raised ZeroDivisionError, which every arithmetic operator propagates.   *)
(* Python's binary floating point is not modelled: the arithmetic is exact.*)
(***************************************************************************)
EXTENDS Integers, Sequences, FiniteSets, TLC

(***************************************************************************)
(* Exact arithmetic                                                        *)
(***************************************************************************)
Abs(n) == IF n < 0 THEN -n ELSE n

RECURSIVE GCD(_, _)
GCD(a, b) == IF b = 0 THEN a ELSE GCD(b, a % b)

\* The value of an expression whose evaluation raised ZeroDivisionError.
ZeroDivisionError == [n |-> 0, d |-> 0]

Raised(x) == x.d = 0

\* n / d as a normalised rational; Python's  /  raises when d = 0.
Frac(n, d) ==
    IF d = 0 THEN ZeroDivisionError
    ELSE LET s == IF d < 0 THEN -1 ELSE 1
             g == GCD(Abs(n), Abs(d))
         IN  [n |-> (s * n) \div g, d |-> (s * d) \div g]

Num(n) == [n |-> n, d |-> 1]

RAdd(a, b) == IF Raised(a) \/ Raised(b) THEN ZeroDivisionError
              ELSE Frac(a.n * b.d + b.n * a.d, a.d * b.d)
RSub(a, b) == IF Raised(a) \/ Raised(b) THEN ZeroDivisionError
              ELSE Frac(a.n * b.d - b.n * a.d, a.d * b.d)
RMul(a, b) == IF Raised(a) \/ Raised(b) THEN ZeroDivisionError
              ELSE Frac(a.n * b.n, a.d * b.d)
RDiv(a, b) == IF Raised(a) \/ Raised(b) THEN ZeroDivisionError
              ELSE Frac(a.n * b.d, a.d * b.n)

\* Comparisons of two numbers (neither raised).
RLt(a, b) == a.n * b.d < b.n * a.d
RLe(a, b) == a.n * b.d <= b.n * a.d
RGt(a, b) == RLt(b, a)
RGe(a, b) == RLe(b, a)

RMin(a, b) == IF Raised(a) \/ Raised(b) THEN ZeroDivisionError
              ELSE IF RLe(a, b) THEN a ELSE b
RMax(a, b) == IF Raised(a) \/ Raised(b) THEN ZeroDivisionError
              ELSE IF RGe(a, b) THEN a ELSE b
RAbs(a) == IF Raised(a) THEN a ELSE [n |-> Abs(a.n), d |-> a.d]

\* max(0.0, min(1.0, x)), the clamp every sub-score function ends with.
Clamp01(x) == RMax(Num(0), RMin(Num(1), x))

InUnit(x) == ~Raised(x) /\ RLe(Num(0), x) /\ RLe(x, Num(1))

\* round(x, 3): to the nearest multiple of 1/1000, a tie going to the even one.
\* The value rounded here is the exact rational; Python rounds the binary
\* double nearest to it, so on an exact decimal tie (0.6075) the two can
\* differ by 1/1000.  No property below depends on the direction of a tie.
Round3(x) ==
    IF Raised(x) THEN x
    ELSE LET q == (x.n * 1000) \div x.d
             r == (x.n * 1000) % x.d
         IN  IF 2 * r < x.d THEN Frac(q, 1000)
             ELSE IF 2 * r > x.d THEN Frac(q + 1, 1000)
             ELSE IF q % 2 = 0 THEN Frac(q, 1000) ELSE Frac(q + 1, 1000)

RECURSIVE SumSeq(_)
SumSeq(s) == IF s = <<>> THEN Num(0) ELSE RAdd(Head(s), SumSeq(Tail(s)))

(***************************************************************************)
(* Strings (Python str) and regular expressions (Python re)                *)
(***************************************************************************)
LowerCase == {"a","b","c","d","e","f","g","h","i","j","k","l","m",
              "n","o","p","q","r","s","t","u","v","w","x","y","z"}
UpperCase == {"A","B","C","D","E","F","G","H","I","J","K","L","M",
              "N","O","P","Q","R","S","T","U","V","W","X","Y","Z"}
Digit == {"0","1","2","3","4","5","6","7","8","9"}
Space == {" ", "\t", "\n"}

UpperSeq == "ABCDEFGHIJKLMNOPQRSTUVWXYZ"
LowerSeq == "abcdefghijklmnopqrstuvwxyz"
DigitSeq == "0123456789"

Char(t, i) == SubSeq(t, i, i)

\* The position of character c in the string s (0 when absent).
IndexIn(s, c) ==
    LET hits == {i \in 1..Len(s) : Char(s, i) = c}
    IN  IF hits = {} THEN 0 ELSE CHOOSE i \in hits : TRUE

LowerChar(c) == IF c \in UpperCase THEN Char(LowerSeq, IndexIn(UpperSeq, c)) ELSE c

\* str.lower()  (the string is halved rather than walked, which keeps the
\* recursion shallow)
RECURSIVE Lower(_)
Lower(t) ==
    IF t = "" THEN ""
    ELSE IF Len(t) = 1 THEN LowerChar(t)
    ELSE Lower(SubSeq(t, 1, Len(t) \div 2)) \o Lower(SubSeq(t, Len(t) \div 2 + 1, Len(t)))

SetMin(S) == CHOOSE m \in S : \A n \in S : m <= n
SetMax(S) == CHOOSE m \in S : \A n \in S : m >= n

\* The elements of a finite set of integers in increasing order.
SortedSeq(S) ==
    [k \in 1..Cardinality(S) |-> CHOOSE m \in S : Cardinality({n \in S : n < m}) = k - 1]

\* str.strip()
Strip(t) ==
    LET inked == {i \in 1..Len(t) : Char(t, i) \notin Space}
    IN  IF inked = {} THEN "" ELSE SubSeq(t, SetMin(inked), SetMax(inked))

\* The maximal runs of characters of t that satisfy Keep, in order.
Runs(t, Keep(_)) ==
    LET starts == {i \in 1..Len(t) : Keep(Char(t, i)) /\ (i = 1 \/ ~Keep(Char(t, i - 1)))}
        ends   == {i \in 1..Len(t) : Keep(Char(t, i)) /\ (i = Len(t) \/ ~Keep(Char(t, i + 1)))}
        from == SortedSeq(starts)
        to == SortedSeq(ends)
    IN  [k \in 1..Cardinality(starts) |-> SubSeq(t, from[k], to[k])]

NotSpace(c) == c \notin Space

\* str.split(): the maximal runs of non-whitespace characters, in order.
Split(t) == Runs(t, NotSpace)

Range(s) == {s[i] : i \in DOMAIN s}

\* len(text.split())
WordCount(t) == Len(Split(t))

\* text.startswith(p)
StartsWith(t, p) == Len(p) <= Len(t) /\ SubSeq(t, 1, Len(p)) = p

\* p occurs in t at position i
MatchAt(t, i, p) == i >= 1 /\ i + Len(p) - 1 <= Len(t) /\ SubSeq(t, i, i + Len(p) - 1) = p

\* p in t
Contains(t, p) == \E i \in 1..(Len(t) + 1) : MatchAt(t, i, p)

\* \w
IsWordChar(c) == c \in LowerCase \cup UpperCase \cup Digit \cup {"_"}

\* \b between t[i-1] and t[i]  (i in 1..Len(t)+1)
Boundary(t, i) ==
    LET before == i >= 2 /\ i - 1 <= Len(t) /\ IsWordChar(Char(t, i - 1))
        after  == i >= 1 /\ i <= Len(t) /\ IsWordChar(Char(t, i))
    IN  before # after

\* \bp\b matches at position i
WordAt(t, i, p) == MatchAt(t, i, p) /\ Boundary(t, i) /\ Boundary(t, i + Len(p))

\* The alternatives of alts (a sequence of strings) for which \b(..|..)\b matches at i.
AltsAt(t, i, alts) == {k \in 1..Len(alts) : WordAt(t, i, alts[k])}

\* re.search(r'\b(a1|a2|...)\b', t) finds a match
SearchWords(t, alts) == \E i \in 1..Len(t) : AltsAt(t, i, alts) # {}

\* len(re.findall(r'\b(a1|a2|...)\b', t)): matches are taken left to right, the
\* first alternative that matches at a position is the one taken, and the scan
\* resumes after it.
\* lenAt maps the position of each possible match to the length of that match.
RECURSIVE CountMatchesFrom(_, _)
CountMatchesFrom(lenAt, i) ==
    LET rest == {j \in DOMAIN lenAt : j >= i}
    IN  IF rest = {} THEN 0
        ELSE 1 + CountMatchesFrom(lenAt, SetMin(rest) + lenAt[SetMin(rest)])

CountWords(t, alts) ==
    CountMatchesFrom([i \in {j \in 1..Len(t) : AltsAt(t, j, alts) # {}} |->
                         Len(alts[SetMin(AltsAt(t, i, alts))])], 1)

\* re.search(r'\b(a1|..)\b.*\b(b1|..)\b', t): '.' matches anything but a newline.
SearchWordsThen(t, first, second) ==
    \E i \in 1..Len(t), k \in 1..Len(first) :
        /\ WordAt(t, i, first[k])
        /\ \E j \in (i + Len(first[k]))..Len(t) :
              /\ AltsAt(t, j, second) # {}
              /\ \A m \in (i + Len(first[k]))..(j - 1) : Char(t, m) # "\n"

\* The non-empty pieces of re.split(r'[.!?]+', text): the maximal runs of
\* characters other than the terminators.  (The empty pieces re.split also
\* returns, before a leading and after a trailing terminator, are dropped by
\* every caller.)
Terminator == {".", "!", "?"}
NotTerminator(c) == c \notin Terminator
ReSplit(t) == Runs(t, NotTerminator)

\* [s.strip() for s in pieces if s.strip()]
StripNonEmpty(ps) ==
    LET kept == SelectSeq(ps, LAMBDA piece : Strip(piece) # "")
    IN  [k \in 1..Len(kept) |-> Strip(kept[k])]

\* _split_into_sentences, defined alike by the accuracy, coherence and
\* completeness evaluators.
SplitIntoSentences(t) == StripNonEmpty(ReSplit(t))

(***************************************************************************)
(* BaseEvaluator                                                           *)
(***************************************************************************)
\* Faulty variant of the similarity of two word sets: the overlap is divided
\* by the size of the first word set instead of the union.
WordSetSimilarityOverFirst(words1, words2) ==
    IF words1 = {} /\ words2 = {} THEN Num(1)
    ELSE IF words1 = {} \/ words2 = {} THEN Num(0)
    ELSE Frac(Cardinality(words1 \cap words2), Cardinality(words1))

\* _calculate_text_similarity after the two word sets are built
WordSetSimilarity(words1, words2) ==
    IF words1 = {} /\ words2 = {} THEN Num(1)
    ELSE IF words1 = {} \/ words2 = {} THEN Num(0)
    ELSE IF words1 \cup words2 # {}
         THEN Frac(Cardinality(words1 \cap words2), Cardinality(words1 \cup words2))
    ELSE Num(0)

\* _calculate_text_similarity
CalculateTextSimilarity(text1, text2) ==
    WordSetSimilarity(Range(Split(Lower(text1))), Range(Split(Lower(text2))))

\* _count_sentences: the non-blank pieces of re.split(r'[.!?]+', text.strip())
CountSentences(t) == Len(StripNonEmpty(ReSplit(Strip(t))))

\* _count_words
CountWordsOf(t) == Len(Split(t))

(***************************************************************************)
(* Python sets of strings: list(a_set)                                     *)
(*                                                                         *)
(* CPython iterates a set in the order of its hash-table slots, and a      *)
(* string's hash is keyed by a seed drawn when the interpreter starts      *)
(* (hash randomisation).  The table is abstracted to HashSlots slots:      *)
(* an element's slot is its keyed hash modulo HashSlots, and elements      *)
(* falling in one slot keep their insertion order.                         *)
(***************************************************************************)
HashSlots == 8

Alphabet == LowerSeq \o UpperSeq \o DigitSeq

CharCode(c) == IndexIn(Alphabet, c)

RECURSIVE StrHashFrom(_, _, _)
StrHashFrom(w, i, h) ==
    IF i > Len(w) THEN 0
    ELSE (CharCode(Char(w, i)) * (h + i) + StrHashFrom(w, i + 1, h)) % 1009
StrHash(w, h) == StrHashFrom(w, 1, h)

Slot(w, h) == StrHash(w, h) % HashSlots

\* The first occurrences of the elements of a sequence, in order.
Dedupe(s) ==
    LET firsts == SortedSeq({i \in 1..Len(s) : \A j \in 1..(i - 1) : s[j] # s[i]})
    IN  [k \in 1..Len(firsts) |-> s[firsts[k]]]

SelectSeqBySlot(s, h, k) == SelectSeq(s, LAMBDA w : Slot(w, h) = k)

RECURSIVE SlotsFrom(_, _, _)
SlotsFrom(s, h, k) ==
    IF k >= HashSlots THEN <<>>
    ELSE SelectSeqBySlot(s, h, k) \o SlotsFrom(s, h, k + 1)

\* list(set(inserted)) in a process whose hash seed is h; inserted is the
\* sequence of insertions.
ListOfSet(inserted, h) == SlotsFrom(Dedupe(inserted), h, 0)

(***************************************************************************)
(* RelevanceEvaluator                                                      *)
(***************************************************************************)
RelevanceStopWords ==
    {"the", "a", "an", "and", "or", "but", "in", "on", "at", "to", "for",
     "of", "with", "by", "is", "are", "was", "were", "be", "been", "being",
     "have", "has", "had", "do", "does", "did", "will", "would", "could",
     "should", "may", "might", "can", "what", "how", "when", "where", "why",
     "who", "which", "that", "this", "these", "those", "i", "you", "he",
     "she", "it", "we", "they", "me", "him", "her", "us", "them"}

\* re.sub(r'[^\w\s]', ' ', text)
PunctToSpaceChar(c) == IF IsWordChar(c) \/ c \in Space THEN c ELSE " "
RECURSIVE PunctToSpace(_)
PunctToSpace(t) ==
    IF t = "" THEN ""
    ELSE IF Len(t) = 1 THEN PunctToSpaceChar(t)
    ELSE PunctToSpace(SubSeq(t, 1, Len(t) \div 2))
         \o PunctToSpace(SubSeq(t, Len(t) \div 2 + 1, Len(t)))

\* The words of _extract_key_terms in the order the set comprehension meets them.
KeyTermWords(text) ==
    SelectSeq(Split(PunctToSpace(Lower(text))),
              LAMBDA word : Len(word) > 2 /\ word \notin RelevanceStopWords)

\* _extract_key_terms: the set of key terms
ExtractKeyTerms(text) == Range(KeyTermWords(text))

\* Faulty variant of _calculate_term_overlap: no early return for a query
\* without key terms.
CalculateTermOverlapUnguarded(query_terms, answer_terms) ==
    Frac(Cardinality(query_terms \cap answer_terms), Cardinality(query_terms))

\* Faulty variant of _calculate_term_overlap: the shared terms are divided by
\* all the terms of the query and the answer.
CalculateTermOverlapOverUnion(query_terms, answer_terms) ==
    IF query_terms = {} THEN Num(0)
    ELSE Frac(Cardinality(query_terms \cap answer_terms),
              Cardinality(query_terms \cup answer_terms))

\* _calculate_term_overlap
CalculateTermOverlap(query_terms, answer_terms) ==
    IF query_terms = {} THEN Num(0)
    ELSE Frac(Cardinality(query_terms \cap answer_terms), Cardinality(query_terms))

ContainsAny(t, phrases) == \E p \in phrases : Contains(t, p)
StartsWithAny(t, prefixes) == \E p \in prefixes : StartsWith(t, p)

\* Faulty variant of the if/elif chain: "is" and "are" are not among the cues
\* of a what-question.
AddressesQuestionTypeWithoutCopula(query_lower, answer_lower) ==
    IF ~StartsWithAny(query_lower, {"what", "how", "when", "where", "why", "who"})
    THEN Num(0)
    ELSE IF /\ StartsWith(query_lower, "what")
            /\ ContainsAny(answer_lower, {"means", "refers"})
    THEN Frac(2, 10)
    ELSE IF /\ StartsWith(query_lower, "how")
            /\ ContainsAny(answer_lower, {"by", "through", "using", "via"})
    THEN Frac(2, 10)
    ELSE IF /\ StartsWith(query_lower, "when")
            /\ ContainsAny(answer_lower, {"in", "during", "at", "on"})
    THEN Frac(2, 10)
    ELSE IF /\ StartsWith(query_lower, "where")
            /\ ContainsAny(answer_lower, {"in", "at", "on", "near"})
    THEN Frac(2, 10)
    ELSE IF /\ StartsWith(query_lower, "why")
            /\ ContainsAny(answer_lower, {"because", "due", "since"})
    THEN Frac(2, 10)
    ELSE Num(0)

\* _check_direct_answer_patterns, the if/elif chain on the question word:
\* whether the answer attempts to address the question type
AddressesQuestionType(query_lower, answer_lower) ==
    IF ~StartsWithAny(query_lower, {"what", "how", "when", "where", "why", "who"})
    THEN Num(0)
    ELSE IF /\ StartsWith(query_lower, "what")
            /\ ContainsAny(answer_lower, {"is", "are", "means", "refers"})
    THEN Frac(2, 10)
    ELSE IF /\ StartsWith(query_lower, "how")
            /\ ContainsAny(answer_lower, {"by", "through", "using", "via"})
    THEN Frac(2, 10)
    ELSE IF /\ StartsWith(query_lower, "when")
            /\ ContainsAny(answer_lower, {"in", "during", "at", "on"})
    THEN Frac(2, 10)
    ELSE IF /\ StartsWith(query_lower, "where")
            /\ ContainsAny(answer_lower, {"in", "at", "on", "near"})
    THEN Frac(2, 10)
    ELSE IF /\ StartsWith(query_lower, "why")
            /\ ContainsAny(answer_lower, {"because", "due", "since"})
    THEN Frac(2, 10)
    ELSE Num(0)

\* Faulty variant of the bonus for imperative queries: any query earns it
\* with a substantial answer.
ImperativeBonusForAnyQuery(query_lower, answer) ==
    IF WordCount(answer) > 10 THEN Frac(4, 10) ELSE Num(0)

\* _check_direct_answer_patterns, the bonus for a substantial answer to an
\* imperative query
ImperativeBonus(query_lower, answer) ==
    IF /\ StartsWithAny(query_lower, {"explain", "describe", "list", "compare"})
       /\ WordCount(answer) > 10
    THEN Frac(4, 10) ELSE Num(0)

\* _check_direct_answer_patterns
CheckDirectAnswerPatterns(query, answer) ==
    LET query_lower == Lower(query)
        answer_lower == Lower(answer)
        indicator ==
            IF /\ StartsWithAny(query_lower, {"what", "how", "when", "where", "why", "who"})
               /\ ContainsAny(answer_lower,
                      {"the answer is", "it is", "this is", "that is", "because",
                       "due to", "as a result", "therefore", "consequently"})
            THEN Frac(3, 10) ELSE Num(0)
        typed == AddressesQuestionType(query_lower, answer_lower)
        imperative == ImperativeBonus(query_lower, answer)
    IN  RMin(RAdd(RAdd(indicator, typed), imperative), Num(1))

\* Faulty variant of _evaluate_semantic_relevance: a blank answer counts as a
\* coherent response.
EvaluateSemanticRelevanceOfBlank(query, answer) ==
    LET query_words == Range(Split(Lower(query)))
        answer_words == Range(Split(Lower(answer)))
        length == IF 20 <= WordCount(answer) /\ WordCount(answer) <= 200 THEN Frac(3, 10)
                  ELSE IF WordCount(answer) < 5 THEN Frac(-2, 10)
                  ELSE Num(0)
        topic == IF Cardinality(query_words \cap answer_words) > 0
                 THEN Frac(4, 10) ELSE Num(0)
        structure ==
            IF ~StartsWithAny(Lower(answer), {"i don't", "i cannot", "sorry"})
            THEN Frac(3, 10) ELSE Num(0)
    IN  Clamp01(RAdd(RAdd(length, topic), structure))

\* _evaluate_semantic_relevance
EvaluateSemanticRelevance(query, answer) ==
    LET query_words == Range(Split(Lower(query)))
        answer_words == Range(Split(Lower(answer)))
        length == IF 20 <= WordCount(answer) /\ WordCount(answer) <= 200 THEN Frac(3, 10)
                  ELSE IF WordCount(answer) < 5 THEN Frac(-2, 10)
                  ELSE Num(0)
        topic == IF Cardinality(query_words \cap answer_words) > 0
                 THEN Frac(4, 10) ELSE Num(0)
        structure ==
            IF /\ Strip(answer) # ""
               /\ ~StartsWithAny(Lower(answer), {"i don't", "i cannot", "sorry"})
            THEN Frac(3, 10) ELSE Num(0)
    IN  Clamp01(RAdd(RAdd(length, topic), structure))

\* Faulty variant of the if/elif chain: the second threshold is 0.5.
BandWithTypo(score) ==
    IF RGe(score, Frac(8, 10)) THEN 1
    ELSE IF RGe(score, Frac(5, 10)) THEN 2
    ELSE IF RGe(score, Frac(4, 10)) THEN 3
    ELSE 4

\* The band of a score: 1 for >= 0.8, 2 for >= 0.6, 3 for >= 0.4, else 4
\* (the if/elif chain shared by the four _generate_*_analysis methods).
Band(score) ==
    IF RGe(score, Frac(8, 10)) THEN 1
    ELSE IF RGe(score, Frac(6, 10)) THEN 2
    ELSE IF RGe(score, Frac(4, 10)) THEN 3
    ELSE 4

\* _generate_relevance_analysis
GenerateRelevanceAnalysis(query, answer, score) ==
    <<"Highly relevant - Answer directly addresses the query with good term overlap",
      "Moderately relevant - Answer addresses the query but could be more focused",
      "Somewhat relevant - Answer partially addresses the query but lacks focus",
      "Low relevance - Answer does not adequately address the query">>[Band(score)]

\* The local variables of RelevanceEvaluator.evaluate before the weighted sum.
RelevanceSubScores(query, answer) ==
    [term_overlap_score |->
         CalculateTermOverlap(ExtractKeyTerms(query), ExtractKeyTerms(answer)),
     direct_answer_score |-> CheckDirectAnswerPatterns(query, answer),
     semantic_score |-> EvaluateSemanticRelevance(query, answer)]

\* relevance_score, the weighted sum
RelevanceScore(sub) ==
    RAdd(RAdd(RMul(sub.term_overlap_score, Frac(4, 10)),
              RMul(sub.direct_answer_score, Frac(3, 10))),
         RMul(sub.semantic_score, Frac(3, 10)))

\* RelevanceEvaluator.evaluate in a process whose hash seed is h: the pair
\* (score, details), or the exception it raised.
RelevanceDetails(query, answer, h, sub, relevance_score) ==
    IF Raised(relevance_score) THEN [raised |-> TRUE]
    ELSE [raised |-> FALSE,
          locals |-> sub,
          score |-> relevance_score,
          details |->
             [query_terms |-> ListOfSet(KeyTermWords(query), h),
              answer_terms |-> ListOfSet(KeyTermWords(answer), h),
              term_overlap_score |-> Round3(sub.term_overlap_score),
              direct_answer_score |-> Round3(sub.direct_answer_score),
              semantic_score |-> Round3(sub.semantic_score),
              analysis |-> GenerateRelevanceAnalysis(query, answer, relevance_score)]]

RelevanceWeighted(query, answer, h, sub) ==
    RelevanceDetails(query, answer, h, sub, RelevanceScore(sub))

RelevanceEvaluate(query, answer, context, expected_answer, h) ==
    RelevanceWeighted(query, answer, h, RelevanceSubScores(query, answer))

(***************************************************************************)
(* Optional[str] arguments: None, or a string (possibly empty)             *)
(***************************************************************************)
None == [some |-> FALSE, text |-> ""]
Some(t) == [some |-> TRUE, text |-> t]

\* The truth value Python gives an Optional[str] in  "if x:"
Truthy(o) == o.some /\ o.text # ""

(***************************************************************************)
(* Numbers in texts                                                        *)
(***************************************************************************)
\* The position after the maximal run of digits that starts at i (i when none).
RECURSIVE DigitsEnd(_, _)
DigitsEnd(t, i) ==
    IF i <= Len(t) /\ Char(t, i) \in Digit THEN DigitsEnd(t, i + 1) ELSE i

\* The positions after a match of \d+(\.\d+)? that starts at i and takes a
\* whole run of digits, the longer match (with the fraction) being the one
\* the regular expression tries first.
NumberEnds(t, i) ==
    LET e1 == DigitsEnd(t, i)
        e2 == IF e1 <= Len(t) /\ Char(t, e1) = "." THEN DigitsEnd(t, e1 + 1) ELSE e1
    IN  IF e1 = i THEN {}
        ELSE IF e2 > e1 + 1 THEN {e1, e2} ELSE {e1}

\* The position after the match of \b\d+(?:\.\d+)?\b at i, or 0.
LongestEnd(ends) == IF ends = {} THEN 0 ELSE CHOOSE e \in ends : \A f \in ends : f <= e

NumberAt(t, i) ==
    IF ~Boundary(t, i) THEN 0
    ELSE LongestEnd({e \in NumberEnds(t, i) : Boundary(t, e)})

\* re.findall(r'\b\d+(?:\.\d+)?\b', t)[0] as the pair of positions (first, after),
\* or <<0, 0>> when findall returns the empty list.
FirstMatch(t, starts) ==
    IF starts = {} THEN <<0, 0>>
    ELSE <<SetMin(starts), NumberAt(t, SetMin(starts))>>

FirstNumber(t) == FirstMatch(t, {i \in 1..Len(t) : NumberAt(t, i) # 0})

\* re.search(r'\b\d+(\.\d+)?\b', t) finds a match
HasNumber(t) == FirstNumber(t)[1] # 0

RECURSIVE DigitsValue(_)
DigitsValue(ds) ==
    IF ds = "" THEN 0
    ELSE 10 * DigitsValue(SubSeq(ds, 1, Len(ds) - 1)) + (IndexIn(DigitSeq, Char(ds, Len(ds))) - 1)

RECURSIVE Pow10(_)
Pow10(k) == IF k = 0 THEN 1 ELSE 10 * Pow10(k - 1)

\* float(s) for s matching \d+(?:\.\d+)?
FloatOf(s) ==
    LET dot == IndexIn(s, ".")
    IN  IF dot = 0 THEN Num(DigitsValue(s))
        ELSE RAdd(Num(DigitsValue(SubSeq(s, 1, dot - 1))),
                  Frac(DigitsValue(SubSeq(s, dot + 1, Len(s))), Pow10(Len(s) - dot)))

\* re.search(r'\b\d{4}\b', t)
HasFourDigits(t) ==
    \E i \in 1..Len(t) : Boundary(t, i) /\ DigitsEnd(t, i) = i + 4 /\ Boundary(t, i + 4)

(***************************************************************************)
(* AccuracyEvaluator                                                       *)
(***************************************************************************)
Units == <<"percent", "%", "degrees", "degree", "miles", "mile", "kilometers",
           "kilometer", "years", "year", "months", "month", "days", "day">>

\* The position after the maximal run of whitespace that starts at i.
RECURSIVE SpacesEnd(_, _)
SpacesEnd(t, i) ==
    IF i <= Len(t) /\ Char(t, i) \in Space THEN SpacesEnd(t, i + 1) ELSE i

\* re.search(r'\b\d+(\.\d+)?\s*(percent|%|degrees?|miles?|kilometers?|years?|months?|days?)\b', t)
HasQuantityWithUnit(t) ==
    \E i \in 1..Len(t) :
        /\ Boundary(t, i)
        /\ \E e \in NumberEnds(t, i) : \E k \in 1..Len(Units) :
              /\ MatchAt(t, SpacesEnd(t, e), Units[k])
              /\ Boundary(t, SpacesEnd(t, e) + Len(Units[k]))

AllIn(t, from, to, set) == \A m \in from..to : Char(t, m) \in set

\* re.search(r'\b[A-Z][a-z]+\s+[A-Z][a-z]+\b', t)
HasCapitalizedBigram(t) ==
    \E i \in 1..Len(t) :
        /\ Char(t, i) \in UpperCase
        /\ Boundary(t, i)
        /\ \E j \in (i + 1)..Len(t) :
              /\ AllIn(t, i + 1, j, LowerCase)
              /\ \E k \in (j + 1)..Len(t) :
                    /\ AllIn(t, j + 1, k, Space)
                    /\ k + 1 <= Len(t)
                    /\ Char(t, k + 1) \in UpperCase
                    /\ \E l \in (k + 2)..Len(t) :
                          AllIn(t, k + 2, l, LowerCase) /\ Boundary(t, l + 1)

BoolToInt(b) == IF b THEN 1 ELSE 0

\* Variant of _measure_specificity that searches the pattern of two
\* capitalized words in the text as written, where it can match.
MeasureSpecificityOfTextAsWritten(text) ==
    LET text_lower == Lower(text)
        specific == BoolToInt(HasQuantityWithUnit(text_lower))
                  + BoolToInt(SearchWords(text_lower,
                        <<"exactly", "precisely", "specifically", "particularly">>))
                  + BoolToInt(HasFourDigits(text_lower))
                  + BoolToInt(HasCapitalizedBigram(text))
        vague == BoolToInt(SearchWords(text_lower,
                        <<"some", "many", "few", "several", "various", "different",
                          "often", "sometimes", "usually">>))
               + BoolToInt(SearchWords(text_lower,
                        <<"approximately", "roughly", "about", "around", "nearly">>))
               + BoolToInt(SearchWords(text_lower,
                        <<"might", "could", "may", "possibly", "probably", "likely">>))
    IN  Clamp01(RSub(RAdd(Frac(5, 10), Frac(specific, 10)), Frac(5 * vague, 100)))

\* _measure_specificity: every pattern is searched in text.lower()
MeasureSpecificity(text) ==
    LET text_lower == Lower(text)
        specific == BoolToInt(HasQuantityWithUnit(text_lower))
                  + BoolToInt(SearchWords(text_lower,
                        <<"exactly", "precisely", "specifically", "particularly">>))
                  + BoolToInt(HasFourDigits(text_lower))
                  + BoolToInt(HasCapitalizedBigram(text_lower))
        vague == BoolToInt(SearchWords(text_lower,
                        <<"some", "many", "few", "several", "various", "different",
                          "often", "sometimes", "usually">>))
               + BoolToInt(SearchWords(text_lower,
                        <<"approximately", "roughly", "about", "around", "nearly">>))
               + BoolToInt(SearchWords(text_lower,
                        <<"might", "could", "may", "possibly", "probably", "likely">>))
    IN  Clamp01(RSub(RAdd(Frac(5, 10), Frac(specific, 10)), Frac(5 * vague, 100)))

\* Faulty variant of the comparison of the two numbers: the accuracy is not
\* floored at 0.0.
CompareNumbersUnclamped(answer_num, expected_num) ==
    IF answer_num = expected_num THEN Num(1)
    ELSE RSub(Num(1), RDiv(RAbs(RSub(answer_num, expected_num)),
                           RMax(RAbs(expected_num), Num(1))))

\* except (ValueError, ZeroDivisionError): return 0.5
ExceptZeroDivision(accuracy) == IF Raised(accuracy) THEN Frac(5, 10) ELSE accuracy

\* Faulty variant of the comparison of the two numbers: the error is taken
\* relative to the answer's number.
CompareNumbersRelativeToAnswer(answer_num, expected_num) ==
    IF answer_num = expected_num THEN Num(1)
    ELSE RMax(Num(0), RSub(Num(1), RDiv(RAbs(RSub(answer_num, expected_num)),
                                        RMax(RAbs(answer_num), Num(1)))))

\* The try block of _compare_numerical_values, on the two parsed numbers.
CompareNumbers(answer_num, expected_num) ==
    IF answer_num = expected_num THEN Num(1)
    ELSE ExceptZeroDivision(
             RMax(Num(0), RSub(Num(1), RDiv(RAbs(RSub(answer_num, expected_num)),
                                            RMax(RAbs(expected_num), Num(1))))))

\* _compare_numerical_values after the two findall calls: a and e are the
\* first numbers of the two texts.
CompareFirstNumbers(answer, expected_answer, a, e) ==
    IF a[1] = 0 /\ e[1] = 0 THEN Frac(8, 10)
    ELSE IF a[1] = 0 \/ e[1] = 0 THEN Frac(3, 10)
    ELSE CompareNumbers(FloatOf(SubSeq(answer, a[1], a[2] - 1)),
                        FloatOf(SubSeq(expected_answer, e[1], e[2] - 1)))

\* _compare_numerical_values
CompareNumericalValues(answer, expected_answer) ==
    CompareFirstNumbers(answer, expected_answer,
                        FirstNumber(answer), FirstNumber(expected_answer))

\* Faulty variant of _check_uncertainty_handling: every occurrence of a cue
\* counts, not every pattern that is found.
CheckUncertaintyHandlingPerCue(answer) ==
    LET answer_lower == Lower(answer)
        good == CountWords(answer_lower,
                    <<"according to", "based on", "research suggests", "studies show">>)
              + CountWords(answer_lower, <<"it depends", "varies", "may vary">>)
              + CountWords(answer_lower, <<"generally", "typically", "commonly", "usually">>)
        poor == CountWords(answer_lower,
                    <<"definitely", "absolutely", "certainly", "without doubt">>)
              + CountWords(answer_lower, <<"never", "always", "all", "none", "every">>)
    IN  Clamp01(RSub(RAdd(Frac(7, 10), Frac(good, 10)), Frac(poor, 10)))

\* _check_uncertainty_handling
CheckUncertaintyHandling(answer) ==
    LET answer_lower == Lower(answer)
        good == BoolToInt(SearchWords(answer_lower,
                    <<"according to", "based on", "research suggests", "studies show">>))
              + BoolToInt(SearchWords(answer_lower, <<"it depends", "varies", "may vary">>))
              + BoolToInt(SearchWords(answer_lower,
                    <<"generally", "typically", "commonly", "usually">>))
        poor == BoolToInt(SearchWords(answer_lower,
                    <<"definitely", "absolutely", "certainly", "without doubt">>))
              + BoolToInt(SearchWords(answer_lower,
                    <<"never", "always", "all", "none", "every">>))
    IN  Clamp01(RSub(RAdd(Frac(7, 10), Frac(good, 10)), Frac(poor, 10)))

IntMax(a, b) == IF a >= b THEN a ELSE b

\* _check_hedging_language
CheckHedgingLanguage(answer) ==
    LET answer_lower == Lower(answer)
        hedging_count ==
            CountWords(answer_lower,
                <<"i think", "i believe", "i guess", "perhaps", "maybe", "possibly">>)
          + CountWords(answer_lower, <<"sort of", "kind of", "somewhat", "rather">>)
        word_count == WordCount(answer)
        hedging_ratio == Frac(hedging_count, IntMax(word_count, 1))
    IN  RMin(Frac(3, 10), RMul(hedging_ratio, Num(2)))

\* _extract_key_facts
ExtractKeyFacts(text) ==
    SelectSeq(SplitIntoSentences(text),
              LAMBDA sentence :
                  ContainsAny(Lower(sentence),
                      {"is", "are", "was", "were", "has", "have", "contains", "includes"}))

ContradictoryPairs ==
    <<<<"true", "false">>, <<"yes", "no">>, <<"increase", "decrease">>,
      <<"positive", "negative">>, <<"good", "bad">>, <<"high", "low">>>>

\* Faulty variant of _are_contradictory: each pair is tried in one direction.
AreContradictoryOneWay(fact1, fact2) ==
    \E k \in 1..Len(ContradictoryPairs) :
        /\ Contains(Lower(fact1), ContradictoryPairs[k][1])
        /\ Contains(Lower(fact2), ContradictoryPairs[k][2])

\* _are_contradictory
AreContradictory(fact1, fact2) ==
    LET fact1_lower == Lower(fact1)
        fact2_lower == Lower(fact2)
    IN  \E k \in 1..Len(ContradictoryPairs) :
            LET word1 == ContradictoryPairs[k][1]
                word2 == ContradictoryPairs[k][2]
            IN  \/ Contains(fact1_lower, word1) /\ Contains(fact2_lower, word2)
                \/ Contains(fact1_lower, word2) /\ Contains(fact2_lower, word1)

\* _check_factual_consistency
FactPairs(answer_facts, expected_facts) ==
    (1..Len(answer_facts)) \X (1..Len(expected_facts))

\* matches and contradictions after the two loops
FactMatches(answer_facts, expected_facts) ==
    Cardinality({p \in FactPairs(answer_facts, expected_facts) :
        RGt(CalculateTextSimilarity(answer_facts[p[1]], expected_facts[p[2]]), Frac(7, 10))})

InContradictionBand(similarity) == ~RGt(similarity, Frac(7, 10)) /\ RGt(similarity, Frac(3, 10))

FactContradictions(answer_facts, expected_facts) ==
    Cardinality({p \in FactPairs(answer_facts, expected_facts) :
        /\ InContradictionBand(
               CalculateTextSimilarity(answer_facts[p[1]], expected_facts[p[2]]))
        /\ AreContradictory(answer_facts[p[1]], expected_facts[p[2]])})

FactualConsistency(answer_facts, expected_facts) ==
    IF expected_facts = <<>> THEN Frac(5, 10)
    ELSE Clamp01(Frac(FactMatches(answer_facts, expected_facts)
                        - FactContradictions(answer_facts, expected_facts),
                      Len(expected_facts)))

CheckFactualConsistency(answer, expected_answer) ==
    FactualConsistency(ExtractKeyFacts(answer), ExtractKeyFacts(expected_answer))

\* Faulty variant of _check_internal_consistency: no early return for an
\* answer of fewer than two sentences.
CheckInternalConsistencyOfAnyAnswer(answer) ==
    LET sentences == SplitIntoSentences(answer)
        answer_lower == Lower(answer)
        penalty ==
            3 * BoolToInt(SearchWordsThen(answer_lower, <<"yes", "true", "correct">>,
                                          <<"no", "false", "incorrect">>))
          + 2 * BoolToInt(SearchWordsThen(answer_lower, <<"always">>, <<"never">>))
          + 2 * BoolToInt(SearchWordsThen(answer_lower, <<"all">>, <<"none">>))
          + 1 * BoolToInt(SearchWordsThen(answer_lower, <<"increase">>, <<"decrease">>))
    IN  Clamp01(RSub(Frac(8, 10), Frac(penalty, 10)))

\* _check_internal_consistency
CheckInternalConsistency(answer) ==
    LET sentences == SplitIntoSentences(answer)
        answer_lower == Lower(answer)
        penalty ==
            3 * BoolToInt(SearchWordsThen(answer_lower, <<"yes", "true", "correct">>,
                                          <<"no", "false", "incorrect">>))
          + 2 * BoolToInt(SearchWordsThen(answer_lower, <<"always">>, <<"never">>))
          + 2 * BoolToInt(SearchWordsThen(answer_lower, <<"all">>, <<"none">>))
          + 1 * BoolToInt(SearchWordsThen(answer_lower, <<"increase">>, <<"decrease">>))
    IN  IF Len(sentences) < 2 THEN Frac(8, 10)
        ELSE Clamp01(RSub(Frac(8, 10), Frac(penalty, 10)))

\* _evaluate_precision (with an expected answer)
EvaluatePrecision(answer, expected_answer) ==
    RDiv(RAdd(MeasureSpecificity(answer), CompareNumericalValues(answer, expected_answer)),
         Num(2))

\* _evaluate_answer_precision (without an expected answer)
EvaluateAnswerPrecision(answer) ==
    Clamp01(RSub(MeasureSpecificity(answer), CheckHedgingLanguage(answer)))

Months == <<"january", "february", "march", "april", "may", "june", "july",
            "august", "september", "october", "november", "december">>

\* _identify_accuracy_indicators
IdentifyAccuracyIndicators(answer) ==
    LET answer_lower == Lower(answer)
    IN  [has_citations |->
             SearchWords(answer_lower, <<"according to", "source", "study", "research">>),
         has_specific_numbers |-> HasNumber(answer),
         has_dates |-> HasFourDigits(answer_lower) \/ SearchWords(answer_lower, Months),
         uses_hedging |->
             SearchWords(answer_lower, <<"might", "could", "may", "possibly", "probably">>),
         shows_uncertainty |->
             SearchWords(answer_lower, <<"uncertain", "unclear", "unknown", "varies">>)]

\* _generate_accuracy_analysis: the band's message and the suffix
GenerateAccuracyAnalysis(answer, score, has_expected) ==
    <<"High accuracy - Answer appears factually sound",
      "Good accuracy - Answer is mostly accurate with minor issues",
      "Moderate accuracy - Answer has some accuracy concerns",
      "Low accuracy - Answer may contain factual errors or inconsistencies">>[Band(score)]
    \o (IF has_expected THEN " (compared against expected answer)"
        ELSE " (evaluated using heuristic methods)")

\* The local variables of AccuracyEvaluator.evaluate before the weighted sum.
AccuracySubScores(answer, expected_answer) ==
    [similarity_score |->
         IF Truthy(expected_answer)
         THEN CalculateTextSimilarity(answer, expected_answer.text) ELSE Frac(5, 10),
     factual_consistency_score |->
         IF Truthy(expected_answer)
         THEN CheckFactualConsistency(answer, expected_answer.text)
         ELSE CheckInternalConsistency(answer),
     precision_score |->
         IF Truthy(expected_answer)
         THEN EvaluatePrecision(answer, expected_answer.text)
         ELSE EvaluateAnswerPrecision(answer),
     uncertainty_score |-> CheckUncertaintyHandling(answer)]

\* Faulty variant of the weighted sum: the weights of factual consistency and
\* precision are exchanged (0.3, 0.2, 0.3, 0.2).
AccuracyScoreMisweighted(sub) ==
    RAdd(RAdd(RAdd(RMul(sub.similarity_score, Frac(3, 10)),
                   RMul(sub.factual_consistency_score, Frac(2, 10))),
              RMul(sub.precision_score, Frac(3, 10))),
         RMul(sub.uncertainty_score, Frac(2, 10)))

\* accuracy_score, the weighted sum
AccuracyScore(sub) ==
    RAdd(RAdd(RAdd(RMul(sub.similarity_score, Frac(3, 10)),
                   RMul(sub.factual_consistency_score, Frac(3, 10))),
              RMul(sub.precision_score, Frac(2, 10))),
         RMul(sub.uncertainty_score, Frac(2, 10)))

\* AccuracyEvaluator.evaluate
AccuracyDetails(answer, expected_answer, sub, accuracy_score) ==
    IF Raised(accuracy_score) THEN [raised |-> TRUE]
    ELSE [raised |-> FALSE,
          locals |-> sub,
          score |-> accuracy_score,
          details |->
             [has_expected_answer |-> expected_answer.some,
              similarity_score |-> Round3(sub.similarity_score),
              factual_consistency_score |-> Round3(sub.factual_consistency_score),
              precision_score |-> Round3(sub.precision_score),
              uncertainty_score |-> Round3(sub.uncertainty_score),
              accuracy_indicators |-> IdentifyAccuracyIndicators(answer),
              analysis |->
                  GenerateAccuracyAnalysis(answer, accuracy_score, expected_answer.some)]]

AccuracyWeighted(answer, expected_answer, sub) ==
    AccuracyDetails(answer, expected_answer, sub, AccuracyScore(sub))

AccuracyEvaluate(query, answer, context, expected_answer, h) ==
    AccuracyWeighted(answer, expected_answer, AccuracySubScores(answer, expected_answer))

(***************************************************************************)
(* CoherenceEvaluator                                                      *)
(***************************************************************************)
\* The maximal runs of \w characters of t, in order.
WordRuns(t) == Runs(t, IsWordChar)

EndsWith(w, p) == Len(p) <= Len(w) /\ SubSeq(w, Len(w) - Len(p) + 1, Len(w)) = p

\* len(re.findall(r'\b\w+ed\b|\bwas\b|\bwere\b|\bhad\b', t)): a match is a whole
\* run of \w characters, since \b holds inside no such run.
CountPastTense(t) ==
    Len(SelectSeq(WordRuns(t),
                  LAMBDA w : \/ Len(w) >= 3 /\ EndsWith(w, "ed")
                             \/ w \in {"was", "were", "had"}))

\* re.search(r'^\s*[-*]\s+', t, re.MULTILINE)
HasBulletLine(t) ==
    \E i \in 1..Len(t) :
        /\ i = 1 \/ Char(t, i - 1) = "\n"
        /\ Char(t, SpacesEnd(t, i)) \in {"-", "*"}
        /\ SpacesEnd(t, i) + 1 <= Len(t)
        /\ Char(t, SpacesEnd(t, i) + 1) \in Space

\* re.search(r'\b\d+\.\s+', t)
HasNumberedItem(t) ==
    \E i \in 1..Len(t) :
        /\ Boundary(t, i)
        /\ DigitsEnd(t, i) > i
        /\ DigitsEnd(t, i) + 1 <= Len(t)
        /\ Char(t, DigitsEnd(t, i)) = "."
        /\ Char(t, DigitsEnd(t, i) + 1) \in Space

\* re.search(r'[.!?].*[.!?]', t)
HasTwoTerminators(t) ==
    \E i \in 1..Len(t) : \E j \in (i + 1)..Len(t) :
        /\ Char(t, i) \in Terminator
        /\ Char(t, j) \in Terminator
        /\ \A m \in (i + 1)..(j - 1) : Char(t, m) # "\n"

\* Faulty variant of the single sentence handling: five words count as long.
SingleSentenceStructureFromFive(answer) ==
    IF WordCount(answer) >= 5 THEN Frac(7, 10) ELSE Frac(4, 10)

\* _evaluate_structure, single sentence handling
SingleSentenceStructure(answer) ==
    IF WordCount(answer) > 5 THEN Frac(7, 10) ELSE Frac(4, 10)

\* _evaluate_structure
EvaluateStructure(answer) ==
    LET sentences == SplitIntoSentences(answer)
        answer_lower == Lower(answer)
        indicators ==
            BoolToInt(SearchWords(answer_lower,
                <<"first", "second", "third", "finally", "lastly", "in conclusion">>))
          + BoolToInt(SearchWords(answer_lower,
                <<"however", "moreover", "furthermore", "additionally", "therefore">>))
          + BoolToInt(SearchWords(answer_lower,
                <<"for example", "for instance", "such as", "including">>))
          + BoolToInt(SearchWords(answer_lower,
                <<"because", "since", "due to", "as a result">>))
        lists == 2 * BoolToInt(HasBulletLine(answer)) + 2 * BoolToInt(HasNumberedItem(answer))
        word_count == WordCount(answer)
        penalty == IF word_count < 10 THEN 1
                   ELSE IF word_count > 200 /\ ~HasTwoTerminators(answer) THEN 2
                   ELSE 0
    IN  IF Len(sentences) = 0 THEN Num(0)
        ELSE IF Len(sentences) = 1
             THEN SingleSentenceStructure(answer)
        ELSE Clamp01(Frac(5 + indicators + lists - penalty, 10))

\* _check_topic_continuity
CheckTopicContinuity(sentences) ==
    LET shared(i) ==
            Cardinality(Range(Split(Lower(sentences[i])))
                        \cap Range(Split(Lower(sentences[i + 1]))))
        pairs == {i \in 1..(Len(sentences) - 1) : shared(i) >= 2}
    IN  IF Len(sentences) <= 1 THEN Num(0)
        ELSE RMin(Frac(2, 10), Frac(2 * Cardinality(pairs), 100))

\* Faulty variant of the adjustment: no upper limit on the rewarded ratios.
TransitionBonusWithoutLimit(transition_ratio) ==
    IF Raised(transition_ratio) THEN ZeroDivisionError
    ELSE IF RLe(Frac(2, 10), transition_ratio) THEN Frac(2, 10)
    ELSE Num(0)

\* The adjustment of _evaluate_logical_flow for the ratio of transition words
\* to sentence boundaries.
TransitionBonus(transition_ratio) ==
    IF Raised(transition_ratio) THEN ZeroDivisionError
    ELSE IF RLe(Frac(2, 10), transition_ratio) /\ RLe(transition_ratio, Frac(8, 10))
    THEN Frac(2, 10)
    ELSE IF RGt(transition_ratio, Frac(8, 10)) THEN Frac(-1, 10)
    ELSE Num(0)

\* transition_count of _evaluate_logical_flow
TransitionCount(answer_lower) ==
    CountWords(answer_lower, <<"however", "but", "although", "while", "whereas">>)
  + CountWords(answer_lower, <<"therefore", "thus", "consequently", "as a result">>)
  + CountWords(answer_lower, <<"furthermore", "moreover", "additionally", "also">>)
  + CountWords(answer_lower, <<"for example", "for instance", "specifically">>)
  + CountWords(answer_lower, <<"first", "second", "next", "then", "finally">>)

\* Faulty variant of _evaluate_logical_flow: an answer of at most one
\* sentence gets the base score.
LogicalFlowFromBase(answer, sentences) ==
    IF Len(sentences) <= 1 THEN Frac(7, 10)
    ELSE Clamp01(RAdd(RAdd(Frac(7, 10),
                           TransitionBonus(Frac(TransitionCount(Lower(answer)),
                                                IntMax(Len(sentences) - 1, 1)))),
                      CheckTopicContinuity(sentences)))

\* _evaluate_logical_flow after the answer is split into sentences
LogicalFlow(answer, sentences) ==
    IF Len(sentences) <= 1 THEN Frac(8, 10)
    ELSE Clamp01(RAdd(RAdd(Frac(7, 10),
                           TransitionBonus(Frac(TransitionCount(Lower(answer)),
                                                IntMax(Len(sentences) - 1, 1)))),
                      CheckTopicContinuity(sentences)))

\* _evaluate_logical_flow
EvaluateLogicalFlow(answer) == LogicalFlow(answer, SplitIntoSentences(answer))

\* sum(len(s.split()) for s in sentences)
RECURSIVE TotalWords(_)
TotalWords(sentences) ==
    IF sentences = <<>> THEN 0
    ELSE WordCount(Head(sentences)) + TotalWords(Tail(sentences))

CountChars(t, set) == Cardinality({i \in 1..Len(t) : Char(t, i) \in set})

\* The adjustment of _evaluate_readability for the average sentence length.
LengthAdjustment(avg_sentence_length) ==
    IF Raised(avg_sentence_length) THEN ZeroDivisionError
    ELSE IF RLe(Num(10), avg_sentence_length) /\ RLe(avg_sentence_length, Num(25))
    THEN Frac(2, 10)
    ELSE IF RGt(avg_sentence_length, Num(30)) THEN Frac(-2, 10)
    ELSE IF RLt(avg_sentence_length, Num(5)) THEN Frac(-1, 10)
    ELSE Num(0)

\* if sentences: ... the sentence length part of _evaluate_readability
SentenceLengthPart(sentences) ==
    IF sentences = <<>> THEN Num(0)
    ELSE LengthAdjustment(Frac(TotalWords(sentences), Len(sentences)))

\* The adjustment of _evaluate_readability for the ratio of complex punctuation.
PunctAdjustment(punct_ratio) ==
    IF Raised(punct_ratio) THEN ZeroDivisionError
    ELSE IF RLe(Frac(2, 100), punct_ratio) /\ RLe(punct_ratio, Frac(1, 10))
    THEN Frac(1, 10)
    ELSE IF RGt(punct_ratio, Frac(15, 100)) THEN Frac(-1, 10)
    ELSE Num(0)

\* The adjustment of _evaluate_readability for the ratio of long words.
VocabularyAdjustment(long_word_ratio) ==
    IF Raised(long_word_ratio) THEN ZeroDivisionError
    ELSE IF RGt(long_word_ratio, Frac(3, 10)) THEN Frac(-1, 10)
    ELSE Num(0)

\* if word_count > 0: ... the punctuation part of _evaluate_readability
PunctPart(answer, word_count) ==
    IF ~(word_count > 0) THEN Num(0)
    ELSE PunctAdjustment(Frac(CountChars(answer, {";", ":", "(", ")", "\""}), word_count))

\* if word_count > 0: ... the vocabulary part of _evaluate_readability
VocabularyPart(answer, word_count) ==
    IF ~(word_count > 0) THEN Num(0)
    ELSE VocabularyAdjustment(
             Frac(Len(SelectSeq(Split(answer), LAMBDA word : Len(word) > 8)), word_count))

\* _evaluate_readability
EvaluateReadability(answer) ==
    Clamp01(RAdd(RAdd(RAdd(Frac(6, 10), SentenceLengthPart(SplitIntoSentences(answer))),
                      PunctPart(answer, WordCount(answer))),
                 VocabularyPart(answer, WordCount(answer))))

\* The tense part of _evaluate_consistency.
TenseScore(past_tense_count, present_tense_count) ==
    IF past_tense_count + present_tense_count > 0
    THEN RDiv(RAdd(Frac(8, 10),
                   RSub(Num(1), Frac(Abs(past_tense_count - present_tense_count),
                                     past_tense_count + present_tense_count))),
              Num(2))
    ELSE Frac(8, 10)

\* active_persons of _evaluate_consistency
ActivePersons(answer_lower) ==
    BoolToInt(CountWords(answer_lower,
                  <<"i", "me", "my", "mine", "we", "us", "our", "ours">>) > 0)
  + BoolToInt(CountWords(answer_lower, <<"you", "your", "yours">>) > 0)
  + BoolToInt(CountWords(answer_lower,
                  <<"he", "she", "it", "they", "them", "their", "his", "her", "its">>) > 0)

\* The person part of _evaluate_consistency.
PersonPenalty(consistency_score, active_persons) ==
    IF active_persons > 2 THEN RSub(consistency_score, Frac(1, 10)) ELSE consistency_score

\* _evaluate_consistency on the lower-cased answer
Consistency(answer_lower) ==
    Clamp01(PersonPenalty(
        TenseScore(CountPastTense(answer_lower),
                   CountWords(answer_lower, <<"is", "are", "has", "have">>)),
        ActivePersons(answer_lower)))

\* _evaluate_consistency
EvaluateConsistency(answer) == Consistency(Lower(answer))

\* re.search(r'\b(therefore|thus|as a result)\b.*[.!?]\s*$', t)
HasClosingConsequence(t) ==
    \E i \in 1..Len(t), k \in 1..3 :
        LET w == <<"therefore", "thus", "as a result">>[k]
        IN  /\ WordAt(t, i, w)
            /\ \E j \in (i + Len(w))..Len(t) :
                  /\ Char(t, j) \in Terminator
                  /\ \A m \in (i + Len(w))..(j - 1) : Char(t, m) # "\n"
                  /\ AllIn(t, j + 1, Len(t), Space)

\* _has_introduction
HasIntroduction(answer) ==
    StartsWithAny(Strip(Lower(answer)),
        {"to answer", "in response", "regarding", "concerning",
         "the answer is", "this is", "it is", "let me explain", "to understand"})

\* _has_conclusion
HasConclusion(answer) ==
    \/ SearchWords(Lower(answer), <<"in conclusion", "to conclude", "finally", "in summary">>)
    \/ HasClosingConsequence(Lower(answer))

\* The occurrences of sep in t, taken left to right without overlap:
\* len(t.split(sep)) - 1
CountOccurrences(t, sep) ==
    CountMatchesFrom([i \in {j \in 1..Len(t) : MatchAt(t, j, sep)} |-> Len(sep)], 1)

\* _analyze_structure
AnalyzeStructure(answer) ==
    [has_introduction |-> HasIntroduction(answer),
     has_conclusion |-> HasConclusion(answer),
     has_transitions |->
         SearchWords(Lower(answer), <<"however", "therefore", "furthermore", "moreover">>),
     has_examples |->
         SearchWords(Lower(answer), <<"for example", "for instance", "such as">>),
     has_enumeration |->
         SearchWords(Lower(answer), <<"first", "second", "third", "finally">>),
     paragraph_count |->
         IF Contains(answer, "\n\n") THEN CountOccurrences(answer, "\n\n") + 1 ELSE 1]

\* _generate_coherence_analysis
GenerateCoherenceAnalysis(answer, score) ==
    <<"Excellent coherence - Well-structured with clear logical flow",
      "Good coherence - Generally well-organized with minor flow issues",
      "Moderate coherence - Some structural issues affecting readability",
      "Poor coherence - Significant issues with structure and logical flow">>[Band(score)]

\* The local variables of CoherenceEvaluator.evaluate before the weighted sum.
CoherenceSubScores(answer) ==
    [structure_score |-> EvaluateStructure(answer),
     flow_score |-> EvaluateLogicalFlow(answer),
     readability_score |-> EvaluateReadability(answer),
     consistency_score |-> EvaluateConsistency(answer)]

\* coherence_score, the weighted sum
CoherenceScore(sub) ==
    RAdd(RAdd(RAdd(RMul(sub.structure_score, Frac(3, 10)),
                   RMul(sub.flow_score, Frac(3, 10))),
              RMul(sub.readability_score, Frac(2, 10))),
         RMul(sub.consistency_score, Frac(2, 10)))

\* CoherenceEvaluator.evaluate
CoherenceDetails(answer, sub, coherence_score) ==
    IF Raised(coherence_score) THEN [raised |-> TRUE]
    ELSE [raised |-> FALSE,
          locals |-> sub,
          score |-> coherence_score,
          details |->
             [structure_score |-> Round3(sub.structure_score),
              flow_score |-> Round3(sub.flow_score),
              readability_score |-> Round3(sub.readability_score),
              consistency_score |-> Round3(sub.consistency_score),
              sentence_count |-> CountSentences(answer),
              word_count |-> CountWordsOf(answer),
              structure_analysis |-> AnalyzeStructure(answer),
              analysis |-> GenerateCoherenceAnalysis(answer, coherence_score)]]

CoherenceWeighted(answer, sub) == CoherenceDetails(answer, sub, CoherenceScore(sub))

\* Faulty variant of CoherenceEvaluator.evaluate: a given context is scored
\* together with the answer.
CoherenceEvaluateWithContext(query, answer, context, expected_answer, h) ==
    IF context.some
    THEN CoherenceWeighted(context.text \o " " \o answer,
                           CoherenceSubScores(context.text \o " " \o answer))
    ELSE CoherenceWeighted(answer, CoherenceSubScores(answer))

CoherenceEvaluate(query, answer, context, expected_answer, h) ==
    CoherenceWeighted(answer, CoherenceSubScores(answer))

(***************************************************************************)
(* CompletenessEvaluator                                                   *)
(***************************************************************************)
\* _identify_question_type
IdentifyQuestionType(query) ==
    LET query_lower == Strip(Lower(query))
    IN  IF StartsWith(query_lower, "what") THEN "definition/explanation"
        ELSE IF StartsWith(query_lower, "how") THEN "process/method"
        ELSE IF StartsWith(query_lower, "why") THEN "reasoning/cause"
        ELSE IF StartsWith(query_lower, "when") THEN "temporal"
        ELSE IF StartsWith(query_lower, "where") THEN "location"
        ELSE IF StartsWith(query_lower, "who") THEN "person/entity"
        ELSE IF StartsWithAny(query_lower, {"compare", "contrast"}) THEN "comparison"
        ELSE IF StartsWithAny(query_lower, {"list", "enumerate"}) THEN "enumeration"
        ELSE IF StartsWithAny(query_lower, {"explain", "describe"}) THEN "explanation"
        ELSE "general"

\* _assess_query_complexity
AssessQueryComplexity(query) ==
    LET word_count == WordCount(query)
        complex_count ==
            Cardinality({k \in {"and", "or", "but", "however", "also", "additionally",
                                "compare", "contrast", "analyze", "evaluate", "discuss"} :
                            Contains(Lower(query), k)})
    IN  IF word_count > 20 \/ complex_count > 2 THEN "high"
        ELSE IF word_count > 10 \/ complex_count > 0 THEN "medium"
        ELSE "low"

\* re.search(r'a.*b', t) for single characters: a from first, later b from second,
\* no newline between them
SearchCharThenChar(t, first, second) ==
    \E i \in 1..Len(t) : \E j \in (i + 1)..Len(t) :
        /\ Char(t, i) \in first
        /\ Char(t, j) \in second
        /\ \A m \in (i + 1)..(j - 1) : Char(t, m) # "\n"

\* _has_multiple_parts
HasMultipleParts(query) ==
    LET query_lower == Lower(query)
    IN  \/ SearchWords(query_lower, <<"and">>)
        \/ SearchWords(query_lower, <<"or">>)
        \/ SearchWords(query_lower, <<"also">>)
        \/ SearchWords(query_lower, <<"additionally">>)
        \/ SearchCharThenChar(query_lower, {"?"}, {"?"})
        \/ SearchCharThenChar(query_lower, {";", ","}, {"?"})
        \/ SearchWords(query_lower, <<"first", "second", "third">>)

\* _requires_examples
RequiresExamples(query) ==
    ContainsAny(Lower(query), {"example", "examples", "instance", "such as", "like",
                               "demonstrate", "illustrate", "show"})

\* _requires_explanation
RequiresExplanation(query) ==
    ContainsAny(Lower(query), {"explain", "describe", "how", "why", "what is", "what are",
                               "detail", "elaborate", "discuss"})

\* _requires_comparison
RequiresComparison(query) ==
    ContainsAny(Lower(query), {"compare", "contrast", "difference", "similar", "versus",
                               "vs", "better", "worse", "advantage", "disadvantage"})

TopicStopWords ==
    {"what", "how", "when", "where", "why", "who", "which", "that",
     "the", "and", "for", "are", "you", "can", "does", "will"}

IsLetter(c) == c \in LowerCase \cup UpperCase

\* re.findall(r'\b[A-Za-z]{3,}\b', query): the runs of \w characters that are
\* at least three letters and nothing else
LetterWords(query) ==
    SelectSeq(WordRuns(query),
              LAMBDA w : Len(w) >= 3 /\ \A i \in 1..Len(w) : IsLetter(Char(w, i)))

\* topics, the list _extract_key_topics builds before it removes duplicates
TopicWords(query) ==
    LET lowered == [k \in 1..Len(LetterWords(query)) |-> Lower(LetterWords(query)[k])]
    IN  SelectSeq(lowered, LAMBDA word : word \notin TopicStopWords)

\* _extract_key_topics: list(set(topics))
ExtractKeyTopics(query, h) == ListOfSet(TopicWords(query), h)

\* _analyze_query_aspects
AnalyzeQueryAspects(query, h) ==
    [question_type |-> IdentifyQuestionType(query),
     complexity |-> AssessQueryComplexity(query),
     multiple_parts |-> HasMultipleParts(query),
     requires_examples |-> RequiresExamples(query),
     requires_explanation |-> RequiresExplanation(query),
     requires_comparison |-> RequiresComparison(query),
     key_topics |-> ExtractKeyTopics(query, h)]

\* re.search(r'\bis\b.*\ba\b', t) and the like
SearchWordThenWord(t, first, second) == SearchWordsThen(t, <<first>>, <<second>>)

\* _has_definition_elements
HasDefinitionElements(answer) ==
    LET answer_lower == Lower(answer)
    IN  \/ SearchWordThenWord(answer_lower, "is", "a")
        \/ SearchWordThenWord(answer_lower, "are", "that")
        \/ SearchWords(answer_lower, <<"means">>)
        \/ SearchWords(answer_lower, <<"refers to">>)
        \/ SearchWords(answer_lower, <<"defined as">>)
        \/ SearchWords(answer_lower, <<"known as">>)

\* _has_process_elements
HasProcessElements(answer) ==
    LET answer_lower == Lower(answer)
    IN  \/ SearchWords(answer_lower, <<"first", "second", "third", "next", "then", "finally">>)
        \/ SearchWords(answer_lower, <<"step", "stage", "phase", "process">>)
        \/ SearchWords(answer_lower, <<"by", "through", "using", "via">>)

\* _has_reasoning_elements
HasReasoningElements(answer) ==
    LET answer_lower == Lower(answer)
    IN  \/ SearchWords(answer_lower,
               <<"because", "since", "due to", "as a result", "therefore", "thus">>)
        \/ SearchWords(answer_lower,
               <<"reason", "cause", "factor", "leads to", "results in">>)

\* _has_comparison_elements
HasComparisonElements(answer) ==
    LET answer_lower == Lower(answer)
    IN  \/ SearchWords(answer_lower,
               <<"compared to", "versus", "vs", "while", "whereas", "however">>)
        \/ SearchWords(answer_lower,
               <<"similar", "different", "alike", "unlike", "better", "worse">>)
        \/ SearchWords(answer_lower,
               <<"advantage", "disadvantage", "benefit", "drawback">>)

\* _addresses_multiple_aspects
AddressesMultipleAspects(answer) ==
    LET answer_lower == Lower(answer)
    IN  \/ SearchWords(answer_lower, <<"also", "additionally", "furthermore", "moreover">>)
        \/ SearchWords(answer_lower, <<"another", "other", "second", "third">>)
        \/ SearchWords(answer_lower, <<"in addition", "as well", "besides">>)

\* _evaluate_aspect_coverage
EvaluateAspectCoverage(query, answer, query_aspects) ==
    LET question_type == query_aspects.question_type
        typed ==
            IF \/ question_type = "definition/explanation" /\ HasDefinitionElements(answer)
               \/ question_type = "process/method" /\ HasProcessElements(answer)
               \/ question_type = "reasoning/cause" /\ HasReasoningElements(answer)
               \/ question_type = "comparison" /\ HasComparisonElements(answer)
            THEN Frac(2, 10) ELSE Num(0)
        key_topics == query_aspects.key_topics
        covered_topics ==
            Cardinality({k \in 1..Len(key_topics) : Contains(Lower(answer), key_topics[k])})
        topic_coverage == Frac(covered_topics, Len(key_topics))
        topics == IF key_topics # <<>> THEN RMul(topic_coverage, Frac(3, 10)) ELSE Num(0)
        parts == IF query_aspects.multiple_parts
                 THEN (IF AddressesMultipleAspects(answer) THEN Frac(2, 10) ELSE Frac(-1, 10))
                 ELSE Num(0)
    IN  Clamp01(RAdd(RAdd(RAdd(Frac(5, 10), typed), topics), parts))

\* Faulty variant of _evaluate_response_depth: only answers of fewer than five
\* words are penalised for their length.
EvaluateResponseDepthShortBelowFive(answer) ==
    LET word_count == WordCount(answer)
        length == IF word_count >= 100 THEN 3
                  ELSE IF word_count >= 50 THEN 2
                  ELSE IF word_count >= 20 THEN 1
                  ELSE IF word_count < 5 THEN -2
                  ELSE 0
        answer_lower == Lower(answer)
        depth_indicator_count ==
            CountWords(answer_lower,
                <<"because", "since", "due to", "as a result", "therefore">>)
          + CountWords(answer_lower, <<"for example", "for instance", "such as", "including">>)
          + CountWords(answer_lower, <<"however", "but", "although", "while", "whereas">>)
          + CountWords(answer_lower, <<"furthermore", "moreover", "additionally", "also">>)
        indicators == IF depth_indicator_count >= 3 THEN 2
                      ELSE IF depth_indicator_count >= 1 THEN 1
                      ELSE 0
    IN  Clamp01(Frac(5 + length + indicators, 10))

\* _evaluate_response_depth
EvaluateResponseDepth(answer) ==
    LET word_count == WordCount(answer)
        length == IF word_count >= 100 THEN 3
                  ELSE IF word_count >= 50 THEN 2
                  ELSE IF word_count >= 20 THEN 1
                  ELSE IF word_count < 10 THEN -2
                  ELSE 0
        answer_lower == Lower(answer)
        depth_indicator_count ==
            CountWords(answer_lower,
                <<"because", "since", "due to", "as a result", "therefore">>)
          + CountWords(answer_lower, <<"for example", "for instance", "such as", "including">>)
          + CountWords(answer_lower, <<"however", "but", "although", "while", "whereas">>)
          + CountWords(answer_lower, <<"furthermore", "moreover", "additionally", "also">>)
        indicators == IF depth_indicator_count >= 3 THEN 2
                      ELSE IF depth_indicator_count >= 1 THEN 1
                      ELSE 0
    IN  Clamp01(Frac(5 + length + indicators, 10))

\* _evaluate_comprehensiveness
EvaluateComprehensiveness(answer) ==
    LET answer_lower == Lower(answer)
        element_count ==
            BoolToInt(SearchWords(answer_lower, <<"for example", "for instance", "such as">>))
          + BoolToInt(SearchWords(answer_lower, <<"because", "since", "due to", "therefore">>))
          + BoolToInt(SearchWords(answer_lower,
                <<"context", "background", "historically", "traditionally">>))
          + BoolToInt(SearchWords(answer_lower,
                <<"implication", "consequence", "result", "impact">>))
          + BoolToInt(SearchWords(answer_lower,
                <<"alternative", "option", "choice", "instead">>))
    IN  Clamp01(RAdd(Frac(6, 10), Frac(8 * element_count, 100)))

\* Faulty variant of the loops of _compare_with_expected without the break:
\* every similar pair of sentences is counted.
CoveredExpectedEveryPair(expected_sentences, answer_sentences) ==
    {p \in (1..Len(expected_sentences)) \X (1..Len(answer_sentences)) :
        RGt(CalculateTextSimilarity(expected_sentences[p[1]], answer_sentences[p[2]]),
            Frac(3, 10))}

\* The expected sentences counted by the loops of _compare_with_expected: the
\* inner loop breaks at the first answer sentence that is similar enough.
CoveredExpected(expected_sentences, answer_sentences) ==
    {i \in 1..Len(expected_sentences) :
        \E j \in 1..Len(answer_sentences) :
            RGt(CalculateTextSimilarity(expected_sentences[i], answer_sentences[j]),
                Frac(3, 10))}

\* _compare_with_expected
CompareWithExpected(answer, expected_answer) ==
    LET expected_sentences == SplitIntoSentences(expected_answer)
        answer_sentences == SplitIntoSentences(answer)
        coverage_count == Cardinality(CoveredExpected(expected_sentences, answer_sentences))
    IN  IF expected_sentences = <<>> THEN Frac(7, 10)
        ELSE Frac(coverage_count, Len(expected_sentences))

\* _identify_completeness_indicators
IdentifyCompletenessIndicators(answer) ==
    LET answer_lower == Lower(answer)
    IN  [has_examples |->
             SearchWords(answer_lower, <<"for example", "for instance", "such as">>),
         has_reasoning |-> SearchWords(answer_lower, <<"because", "since", "therefore">>),
         has_multiple_points |->
             SearchWords(answer_lower, <<"first", "second", "also", "additionally">>),
         has_context |-> SearchWords(answer_lower, <<"context", "background", "history">>),
         has_implications |->
             SearchWords(answer_lower, <<"implication", "consequence", "impact">>),
         addresses_alternatives |->
             SearchWords(answer_lower, <<"alternative", "option", "instead">>)]

\* _generate_completeness_analysis
GenerateCompletenessAnalysis(answer, score, query_aspects) ==
    <<"Highly complete - Thoroughly addresses the query",
      "Good completeness - Covers most important aspects",
      "Moderate completeness - Addresses some aspects but lacks depth",
      "Low completeness - Missing significant aspects of the query">>[Band(score)]
    \o (IF query_aspects.complexity = "high" THEN " (complex query with multiple aspects)"
        ELSE IF query_aspects.complexity = "low" THEN " (straightforward query)"
        ELSE " (moderately complex query)")

\* expected_coverage_score of CompletenessEvaluator.evaluate: the comparison
\* when expected_answer is truthy, else the neutral score.
ExpectedCoverageScore(answer, expected_answer) ==
    IF Truthy(expected_answer) THEN CompareWithExpected(answer, expected_answer.text)
    ELSE Frac(7, 10)

\* The local variables of CompletenessEvaluator.evaluate before the weighted sum.
CompletenessSubScores(query, answer, expected_answer, query_aspects) ==
    [coverage_score |-> EvaluateAspectCoverage(query, answer, query_aspects),
     depth_score |-> EvaluateResponseDepth(answer),
     comprehensive_score |-> EvaluateComprehensiveness(answer),
     expected_coverage_score |-> ExpectedCoverageScore(answer, expected_answer)]

\* completeness_score, the weighted sum
CompletenessScore(sub) ==
    RAdd(RAdd(RAdd(RMul(sub.coverage_score, Frac(30, 100)),
                   RMul(sub.depth_score, Frac(25, 100))),
              RMul(sub.comprehensive_score, Frac(25, 100))),
         RMul(sub.expected_coverage_score, Frac(20, 100)))

\* CompletenessEvaluator.evaluate
CompletenessDetails(answer, query_aspects, sub, completeness_score) ==
    IF Raised(completeness_score) THEN [raised |-> TRUE]
    ELSE [raised |-> FALSE,
          locals |-> sub,
          score |-> completeness_score,
          details |->
             [query_aspects |-> query_aspects,
              coverage_score |-> Round3(sub.coverage_score),
              depth_score |-> Round3(sub.depth_score),
              comprehensive_score |-> Round3(sub.comprehensive_score),
              expected_coverage_score |-> Round3(sub.expected_coverage_score),
              response_length |-> WordCount(answer),
              completeness_indicators |-> IdentifyCompletenessIndicators(answer),
              analysis |->
                  GenerateCompletenessAnalysis(answer, completeness_score, query_aspects)]]

CompletenessWeighted(answer, query_aspects, sub) ==
    CompletenessDetails(answer, query_aspects, sub, CompletenessScore(sub))

\* evaluate after query_aspects = self._analyze_query_aspects(query)
CompletenessOf(query, answer, expected_answer, query_aspects) ==
    CompletenessWeighted(answer, query_aspects,
        CompletenessSubScores(query, answer, expected_answer, query_aspects))

CompletenessEvaluate(query, answer, context, expected_answer, h) ==
    CompletenessOf(query, answer, expected_answer, AnalyzeQueryAspects(query, h))

(***************************************************************************)
(* The inputs the model draws from                                         *)
(***************************************************************************)
Queries ==
    <<"What is the capital of France?",
      "",
      "Explain how photosynthesis works.",
      "Compare cats and dogs, and why?">>

Answers ==
    <<"The capital of France is Paris.",
      "",
      "Plants make food.",
      "Yes. It is 50 km, not 7 km. However, maybe it is big because of that.",
      "First, plants absorb light. Then they make sugar because they need energy.">>

ExpectedAnswers ==
    <<None,
      Some("It is 7 km. The capital of France is Paris."),
      Some(""),
      Some("Plants make sugar.")>>

Contexts == {None, Some("France is a country in Europe.")}

\* The hash seeds an interpreter may start with.
HashSeeds == {1, 2}

NumQueries == 3
NumAnswers == 4
NumExpected == 3

IntMin(a, b) == IF a <= b THEN a ELSE b

FirstOf(corpus, n) == {corpus[k] : k \in 1..IntMin(n, Len(corpus))}

(***************************************************************************)
(* The service                                                             *)
(***************************************************************************)
Names == <<"relevance", "accuracy", "coherence", "completeness">>

\* BaseEvaluator.__init__, as the four subclasses call it: name, description
\* and the default score_range.
NewEvaluators ==
    [criterion \in Range(Names) |->
        [name |-> CASE criterion = "relevance" -> "Relevance Evaluator"
                    [] criterion = "accuracy" -> "Accuracy Evaluator"
                    [] criterion = "coherence" -> "Coherence Evaluator"
                    [] OTHER -> "Completeness Evaluator",
         description |->
              CASE criterion = "relevance" ->
                     "Measures how well the answer addresses the specific query"
                [] criterion = "accuracy" ->
                     "Measures the factual correctness and precision of the answer"
                [] criterion = "coherence" ->
                     "Measures the logical flow, structure, and readability of the answer"
                [] OTHER ->
                     "Measures how thoroughly the answer addresses all aspects of the query",
         score_range |-> <<Num(0), Num(1)>>]]

VARIABLES
    hashSeed,      \* the string hash seed of the running interpreter
    evaluators,    \* the module-level evaluators dict: criterion -> instance
    raising,       \* the evaluators that fail with an unexpected exception
    request,       \* query, answer, context and expected_answer of the caller
    pc,            \* the caller's position
    called,        \* the operation the caller invoked
    result,        \* what that operation returned
    before,        \* what the same operation returned the previous time
    threads        \* the concurrent callers of the shared evaluators

vars == <<hashSeed, evaluators, raising, request, pc, called, result, before, threads>>

NoResult == [raised |-> FALSE, none |-> TRUE]

\* EvaluationRequest, evaluation_criteria at its default
Requests ==
    [query : FirstOf(Queries, NumQueries),
     answer : FirstOf(Answers, NumAnswers),
     context : Contexts,
     expected_answer : FirstOf(ExpectedAnswers, NumExpected),
     evaluation_criteria : {Names}]

\* evaluator.evaluate(query, answer, context, expected_answer) of the evaluator
\* registered under criterion, in a process whose hash seed is h
Evaluate(criterion, req, h) ==
    CASE criterion = "relevance" ->
            RelevanceEvaluate(req.query, req.answer, req.context, req.expected_answer, h)
      [] criterion = "accuracy" ->
            AccuracyEvaluate(req.query, req.answer, req.context, req.expected_answer, h)
      [] criterion = "coherence" ->
            CoherenceEvaluate(req.query, req.answer, req.context, req.expected_answer, h)
      [] criterion = "completeness" ->
            CompletenessEvaluate(req.query, req.answer, req.context, req.expected_answer, h)

(***************************************************************************)
(* Specification Spec: one call of one scorer, or of the text similarity,  *)
(* on every input of the corpus.                                           *)
(***************************************************************************)
Init ==
    /\ hashSeed \in HashSeeds
    /\ evaluators = NewEvaluators
    /\ raising = {}
    /\ request \in Requests
    /\ pc = "ready"
    /\ called = ""
    /\ result = NoResult
    /\ before = NoResult
    /\ threads = <<>>

CallScorer(criterion) ==
    /\ pc = "ready"
    /\ pc' = "done"
    /\ called' = criterion
    /\ result' = Evaluate(criterion, request, hashSeed)
    /\ UNCHANGED <<hashSeed, evaluators, raising, request, before, threads>>

CallRelevance == CallScorer("relevance")
CallAccuracy == CallScorer("accuracy")
CallCoherence == CallScorer("coherence")
CallCompleteness == CallScorer("completeness")

\* The pairs of texts the scorers hand to _calculate_text_similarity, and the
\* pairs of a text with itself.
SimilarityArguments(req) ==
    {<<req.answer, req.expected_answer.text>>, <<req.query, req.answer>>,
     <<req.answer, req.answer>>, <<req.query, req.query>>}

CallTextSimilarity ==
    /\ pc = "ready"
    /\ pc' = "done"
    /\ called' = "similarity"
    /\ \E args \in SimilarityArguments(request) :
          result' = [raised |-> Raised(CalculateTextSimilarity(args[1], args[2])),
                     text1 |-> args[1],
                     text2 |-> args[2],
                     score |-> CalculateTextSimilarity(args[1], args[2])]
    /\ UNCHANGED <<hashSeed, evaluators, raising, request, before, threads>>

Next ==
    \/ CallRelevance
    \/ CallAccuracy
    \/ CallCoherence
    \/ CallCompleteness
    \/ CallTextSimilarity

Spec == Init /\ [][Next]_vars

(***************************************************************************)
(* The boundaries: the /evaluate handler and the demo's evaluate_answer    *)
(***************************************************************************)
\* A dict, in insertion order, as a sequence of [key, value] records.
DictKeys(d) == [k \in 1..Len(d) |-> d[k].key]
DictValues(d) == [k \in 1..Len(d) |-> d[k].value]
DictHas(d, key) == \E k \in 1..Len(d) : d[k].key = key
DictGet(d, key) == d[CHOOSE k \in 1..Len(d) : d[k].key = key].value

\* Faulty variant of d[key] = value: a key already present moves to the end.
DictSetAtEnd(d, key, value) ==
    Append(SelectSeq(d, LAMBDA entry : entry.key # key), [key |-> key, value |-> value])

\* d[key] = value: a key already present keeps its place
DictSet(d, key, value) ==
    IF DictHas(d, key)
    THEN [k \in 1..Len(d) |-> IF d[k].key = key THEN [key |-> key, value |-> value] ELSE d[k]]
    ELSE Append(d, [key |-> key, value |-> value])

\* evaluator.evaluate(...) at a boundary; the evaluators in failing raise an
\* unexpected exception instead of returning.
EvaluatorCall(criterion, req, h, failing) ==
    IF criterion \in failing THEN [raised |-> TRUE]
    ELSE Evaluate(criterion, req, h)

\* Faulty variant of _generate_recommendations: the threshold is 0.7.
GenerateRecommendationsBelowSeven(scores, details) ==
    LET low == SelectSeq(scores, LAMBDA entry :
                   /\ RLt(entry.value, Frac(7, 10))
                   /\ entry.key \in Range(Names))
        recommendations ==
            [k \in 1..Len(low) |->
                CASE low[k].key = "relevance" ->
                       "Consider making the answer more relevant to the specific query"
                  [] low[k].key = "accuracy" ->
                       "Verify factual accuracy and provide more precise information"
                  [] low[k].key = "coherence" ->
                       "Improve logical flow and structure of the response"
                  [] low[k].key = "completeness" ->
                       "Provide more comprehensive coverage of the topic"]
    IN  IF recommendations = <<>>
        THEN <<"Great job! The response meets quality standards across all criteria">>
        ELSE recommendations

\* _generate_recommendations
GenerateRecommendations(scores, details) ==
    LET low == SelectSeq(scores, LAMBDA entry :
                   /\ RLt(entry.value, Frac(6, 10))
                   /\ entry.key \in Range(Names))
        recommendations ==
            [k \in 1..Len(low) |->
                CASE low[k].key = "relevance" ->
                       "Consider making the answer more relevant to the specific query"
                  [] low[k].key = "accuracy" ->
                       "Verify factual accuracy and provide more precise information"
                  [] low[k].key = "coherence" ->
                       "Improve logical flow and structure of the response"
                  [] low[k].key = "completeness" ->
                       "Provide more comprehensive coverage of the topic"]
    IN  IF recommendations = <<>>
        THEN <<"Great job! The response meets quality standards across all criteria">>
        ELSE recommendations

\* The for loop of evaluate_llm_response from the k-th criterion on; acc holds
\* detailed_scores and evaluation_details.  An exception leaves the loop.
RECURSIVE RunCriteria(_, _, _, _, _)

\* The body of the loop once the evaluator of a recognised criterion has
\* returned or raised, and the iterations after it.
AfterEvaluatorCall(req, k, h, failing, acc, criterion, returned) ==
    IF returned.raised THEN [acc EXCEPT !.raised = TRUE]
    ELSE RunCriteria(req, k + 1, h, failing,
           [raised |-> FALSE,
            detailed_scores |-> DictSet(acc.detailed_scores, criterion, returned.score),
            evaluation_details |->
                DictSet(acc.evaluation_details, criterion, returned.details)])

RunCriteria(req, k, h, failing, acc) ==
    IF k > Len(req.evaluation_criteria) THEN acc
    ELSE IF req.evaluation_criteria[k] \notin DOMAIN NewEvaluators
    THEN RunCriteria(req, k + 1, h, failing, acc)
    ELSE AfterEvaluatorCall(req, k, h, failing, acc, req.evaluation_criteria[k],
             EvaluatorCall(req.evaluation_criteria[k], req, h, failing))

\* Faulty variant of the overall score: the sum is divided by the number of
\* evaluators instead of the number of scores.
OverallScoreOverAllEvaluators(detailed_scores) ==
    IF detailed_scores # <<>>
    THEN RDiv(SumSeq(DictValues(detailed_scores)), Num(Len(Names)))
    ELSE Num(0)

\* Faulty variant of overall_score without the test for an empty dict: the
\* division by len(detailed_scores) = 0 raises.
OverallScoreUnguarded(detailed_scores) ==
    IF Len(detailed_scores) = 0 THEN ZeroDivisionError
    ELSE RDiv(SumSeq(DictValues(detailed_scores)), Num(Len(detailed_scores)))

\* overall_score, the mean of the values of detailed_scores
OverallScore(detailed_scores) ==
    IF detailed_scores # <<>>
    THEN RDiv(SumSeq(DictValues(detailed_scores)), Num(Len(detailed_scores)))
    ELSE Num(0)

RoundValues(d) == [k \in 1..Len(d) |-> [key |-> d[k].key, value |-> Round3(d[k].value)]]

\* The response of evaluate_llm_response, or HTTP 500 when anything in the body
\* raised.  locals holds detailed_scores and overall_score before rounding.
Respond(req, run, overall_score) ==
    IF run.raised \/ Raised(overall_score)
    THEN [raised |-> TRUE, status_code |-> 500]
    ELSE [raised |-> FALSE,
          status_code |-> 200,
          locals |-> [detailed_scores |-> run.detailed_scores,
                      overall_score |-> overall_score],
          response |->
             [query |-> req.query,
              answer |-> req.answer,
              overall_score |-> Round3(overall_score),
              detailed_scores |-> RoundValues(run.detailed_scores),
              evaluation_summary |->
                 [criteria_evaluated |-> DictKeys(run.detailed_scores),
                  evaluation_details |-> run.evaluation_details,
                  recommendations |->
                      GenerateRecommendations(run.detailed_scores,
                                              run.evaluation_details)]]]

\* evaluate_llm_response after the loop
AfterCriteria(req, run) == Respond(req, run, OverallScore(run.detailed_scores))

\* evaluate_llm_response
EvaluateLlmResponse(req, h, failing) ==
    AfterCriteria(req, RunCriteria(req, 1, h, failing,
                                   [raised |-> FALSE, detailed_scores |-> <<>>,
                                    evaluation_details |-> <<>>]))

\* x if x else None
OrNone(optional) == IF Truthy(optional) THEN optional ELSE None

\* The body of the demo's loop for the evaluator registered under name: the
\* entries it puts in results and detailed_results.
EntryOf(name, returned) ==
    IF returned.raised
    THEN [key |-> name, score |-> Num(0), details |-> [error |-> "raised"]]
    ELSE [key |-> name, score |-> returned.score, details |-> returned.details]

EvaluateAnswerEntry(name, req, h, failing) ==
    EntryOf(name, EvaluatorCall(name,
                      [req EXCEPT !.context = OrNone(req.context),
                                  !.expected_answer = OrNone(req.expected_answer)],
                      h, failing))

\* (results, detailed_results) of the entries the loop made
ResultsOf(entries) ==
    [raised |-> FALSE,
     results |-> [k \in 1..Len(entries) |->
                     [key |-> entries[k].key, value |-> entries[k].score]],
     detailed_results |-> [k \in 1..Len(entries) |->
                     [key |-> entries[k].key, value |-> entries[k].details]]]

\* evaluate_answer: (results, detailed_results) over all four evaluators
EvaluateAnswer(req, h, failing) ==
    ResultsOf([k \in 1..Len(Names) |-> EvaluateAnswerEntry(Names[k], req, h, failing)])

(***************************************************************************)
(* Specification SpecAgg: one aggregate evaluation at either boundary,     *)
(* with or without an evaluator that fails.                                *)
(***************************************************************************)
Cases ==
    <<[query |-> "What is the capital of France?",
       answer |-> "The capital of France is Paris because it is a large city, for example.",
       context |-> None,
       expected_answer |-> None],
      [query |-> "What is the capital of France?",
       answer |-> "The capital of France is Paris.",
       context |-> Some("France is a country in Europe."),
       expected_answer |-> Some("It is 7 km. The capital of France is Paris.")],
      [query |-> "What is the capital of France?",
       answer |-> "",
       context |-> Some(""),
       expected_answer |-> Some("")],
      [query |-> "Explain how photosynthesis works.",
       answer |-> "Plants make food.",
       context |-> None,
       expected_answer |-> Some("Plants make sugar.")]>>

\* A request with an empty answer, without context and expected answer.
EmptyAnswerCase ==
    [query |-> "What is the capital of France?",
     answer |-> "",
     context |-> None,
     expected_answer |-> None]

CriteriaLists ==
    <<Names,
      <<>>,
      <<"relevance", "bogus">>,
      <<"bogus">>,
      <<"accuracy">>,
      <<"bogus", "coherence", "completeness">>,
      <<"completeness", "relevance">>,
      <<"accuracy", "accuracy">>,
      <<"coherence">>,
      <<"relevance", "Relevance", "accuracy">>,
      <<"coherence", "relevance", "coherence">>,
      <<"completeness", "bogus", "bogus", "relevance", "coherence">>>>

NumCases == 3
NumCriteriaLists == 11

\* At most one evaluator fails during an evaluation.
Failures == {{}} \cup {{criterion} : criterion \in Range(Names)}

InitAgg ==
    /\ hashSeed \in HashSeeds
    /\ evaluators = NewEvaluators
    /\ raising \in Failures
    /\ request \in {[query |-> c.query, answer |-> c.answer, context |-> c.context,
                     expected_answer |-> c.expected_answer,
                     evaluation_criteria |-> Names] :
                        c \in FirstOf(Cases, NumCases) \cup {EmptyAnswerCase}}
    /\ pc = "ready"
    /\ called = ""
    /\ result = NoResult
    /\ before = NoResult
    /\ threads = <<>>

\* POST /evaluate with some evaluation_criteria
PostEvaluate ==
    /\ pc = "ready"
    /\ pc' = "done"
    /\ called' = "/evaluate"
    /\ \E criteria \in FirstOf(CriteriaLists, NumCriteriaLists) :
          /\ request' = [request EXCEPT !.evaluation_criteria = criteria]
          /\ result' = EvaluateLlmResponse(
                           [request EXCEPT !.evaluation_criteria = criteria],
                           hashSeed, raising)
    /\ UNCHANGED <<hashSeed, evaluators, raising, before, threads>>

\* The demo evaluates the answer that was entered.
DemoEvaluateAnswer ==
    /\ pc = "ready"
    /\ pc' = "done"
    /\ called' = "evaluate_answer"
    /\ result' = EvaluateAnswer(request, hashSeed, raising)
    /\ UNCHANGED <<hashSeed, evaluators, raising, request, before, threads>>

NextAgg ==
    \/ PostEvaluate
    \/ DemoEvaluateAnswer

SpecAgg == InitAgg /\ [][NextAgg]_vars

(***************************************************************************)
(* Specification SpecRestart: the same scorer is called twice on the same  *)
(* input; the service may be restarted in between, and the new interpreter *)
(* draws its own hash seed.                                                *)
(***************************************************************************)
InitRestart ==
    /\ hashSeed \in HashSeeds
    /\ evaluators = NewEvaluators
    /\ raising = {}
    /\ request \in {r \in Requests : r.context = None /\ r.expected_answer = None}
    /\ pc = "ready"
    /\ called = ""
    /\ result = NoResult
    /\ before = NoResult
    /\ threads = <<>>

FirstCall ==
    /\ pc = "ready"
    /\ pc' = "called"
    /\ \E criterion \in Range(Names) :
          /\ called' = criterion
          /\ result' = Evaluate(criterion, request, hashSeed)
    /\ UNCHANGED <<hashSeed, evaluators, raising, request, before, threads>>

Restart ==
    /\ pc = "called"
    /\ pc' = "restarted"
    /\ hashSeed' \in HashSeeds
    /\ evaluators' = NewEvaluators
    /\ UNCHANGED <<raising, request, called, result, before, threads>>

SecondCall ==
    /\ pc \in {"called", "restarted"}
    /\ pc' = "done"
    /\ before' = result
    /\ result' = Evaluate(called, request, hashSeed)
    /\ UNCHANGED <<hashSeed, evaluators, raising, request, called, threads>>

NextRestart ==
    \/ FirstCall
    \/ Restart
    \/ SecondCall

SpecRestart == InitRestart /\ [][NextRestart]_vars

(***************************************************************************)
(* Specification SpecConc: the sessions of the demo run evaluate_answer in *)
(* threads of their own on the evaluators they share, one evaluator call   *)
(* at a time.                                                              *)
(***************************************************************************)
Callers == {1, 2}

\* Faulty variant of evaluate: the instance remembers the last answer.
InstanceAfterEvaluateCaching(self, req) == [self EXCEPT !.description = req.answer]

\* The evaluator instance after its evaluate returned: no method assigns an
\* attribute of self.
InstanceAfterEvaluate(self, req) == self

InitConc ==
    /\ hashSeed \in HashSeeds
    /\ evaluators = NewEvaluators
    /\ raising = {}
    /\ request = [query |-> "", answer |-> "", context |-> None, expected_answer |-> None,
                  evaluation_criteria |-> Names]
    /\ pc = "serving"
    /\ called = ""
    /\ result = NoResult
    /\ before = NoResult
    /\ threads \in [Callers ->
                      {[pc |-> "loop", k |-> 1, entries |-> <<>>,
                        request |-> [query |-> c.query, answer |-> c.answer,
                                     context |-> c.context,
                                     expected_answer |-> c.expected_answer,
                                     evaluation_criteria |-> Names]] :
                       c \in FirstOf(Cases, NumCases)}]

\* One iteration of the loop of evaluate_answer in the thread of caller t;
\* entries holds what the iterations put in results and detailed_results.
ThreadEvaluate(t) ==
    /\ threads[t].pc = "loop"
    /\ Names[threads[t].k] \in DOMAIN evaluators
    /\ threads' = [threads EXCEPT ![t] =
          [@ EXCEPT
              !.entries = Append(@, EvaluateAnswerEntry(Names[threads[t].k],
                                        threads[t].request, hashSeed, raising)),
              !.k = @ + 1,
              !.pc = IF threads[t].k = Len(Names) THEN "done" ELSE "loop"]]
    /\ evaluators' = [evaluators EXCEPT ![Names[threads[t].k]] =
                          InstanceAfterEvaluate(@, threads[t].request)]
    /\ UNCHANGED <<hashSeed, raising, request, pc, called, result, before>>

NextConc == \E t \in Callers : ThreadEvaluate(t)

SpecConc == InitConc /\ [][NextConc]_vars

(***************************************************************************)
(* Specification SpecSub: one call of one scoring helper of the            *)
(* evaluators, or of RelevanceEvaluator.evaluate, on texts that reach the  *)
(* helpers' branches.                                                      *)
(***************************************************************************)
SubQueries ==
    <<"What is the capital of France?",
      "",
      "Explain how photosynthesis works.",
      "What are plants?">>

SubAnswers ==
    <<"The capital of France is Paris.",
      "",
      "Plants make food.",
      "Paris is the capital city.",
      "Paris.",
      "The result is 50.",
      "The result is 50. Not 100.",
      "It is definitely always true that X never happens.",
      "It always rains. It never stops.",
      "It depends. Generally, it varies, according to research.",
      "New York is big.",
      "The rate is high.",
      "The rate is low.",
      "Sorry, I cannot say.",
      "Paris is the capital of France because the government sits there, and it is also the largest city of the country by population.",
      "   ",
      "It works because of light.",
      "Exactly 5 percent in 1999.",
      "The rate is high. The rate is high.",
      "Yes, all increase. No, none decrease.",
      "First, plants absorb light. Then they make sugar.",
      "Plants need light. However, plants need water. It rains.",
      "The rate is high. The rate is low.",
      "According to studies, it depends, but typically New York had exactly 5 percent in 1999.",
      "We go on. We go on. We go on. We go on. We go on. We go on. We go on. We go on. We go on. We go on. We go on. We go on.",
      "Some might say about 5.">>

SubExpected ==
    <<"The result is 100.",
      "The result is 50.",
      "The rate is high.",
      "Plants make food.",
      "The rate is high. The rate is low.",
      "The result is 50. Plants make food.",
      "?!",
      "It is 7 km.">>

NumSubQueries == 3
NumSubAnswers == 25
NumSubExpected == 7

\* The helpers by their arguments: (answer), (query, answer),
\* (answer, expected_answer), the expected coverage of
\* CompletenessEvaluator.evaluate, which takes the request's optional
\* expected_answer, and AccuracyEvaluator.evaluate without an expected answer.
AnswerHelpers ==
    {"_evaluate_structure", "_evaluate_logical_flow", "_check_uncertainty_handling",
     "_measure_specificity", "_check_internal_consistency", "_evaluate_response_depth"}

QueryHelpers ==
    {"_calculate_term_overlap", "_check_direct_answer_patterns",
     "_evaluate_semantic_relevance", "_evaluate_aspect_coverage", "evaluate"}

ExpectedHelpers == {"_compare_numerical_values", "_check_factual_consistency"}

OptionalExpectedHelpers == {"expected_coverage_score"}

HeuristicHelpers == {"AccuracyEvaluator.evaluate"}

Helpers ==
    AnswerHelpers \cup QueryHelpers \cup ExpectedHelpers \cup OptionalExpectedHelpers
        \cup HeuristicHelpers

\* The arguments a helper is called with; expected_answer is a non-empty
\* string wherever evaluate passes it on.
HelperArguments(helper) ==
    [query : IF helper \in QueryHelpers THEN FirstOf(SubQueries, NumSubQueries) ELSE {""},
     answer : FirstOf(SubAnswers, NumSubAnswers),
     expected_answer : IF helper \in ExpectedHelpers
                       THEN {Some(e) : e \in FirstOf(SubExpected, NumSubExpected)}
                       ELSE IF helper \in OptionalExpectedHelpers
                       THEN {None, Some("")}
                                \cup {Some(e) : e \in FirstOf(SubExpected, NumSubExpected)}
                       ELSE {None}]

Returned(value) == [raised |-> Raised(value), score |-> value]

\* self.<helper>(...) on the arguments args, in a process whose hash seed is h
CallOf(helper, args, h) ==
    CASE helper = "_evaluate_structure" -> Returned(EvaluateStructure(args.answer))
      [] helper = "_evaluate_logical_flow" -> Returned(EvaluateLogicalFlow(args.answer))
      [] helper = "_check_uncertainty_handling" ->
            Returned(CheckUncertaintyHandling(args.answer))
      [] helper = "_measure_specificity" -> Returned(MeasureSpecificity(args.answer))
      [] helper = "_check_internal_consistency" ->
            Returned(CheckInternalConsistency(args.answer))
      [] helper = "_evaluate_response_depth" -> Returned(EvaluateResponseDepth(args.answer))
      [] helper = "_calculate_term_overlap" ->
            Returned(CalculateTermOverlap(ExtractKeyTerms(args.query),
                                          ExtractKeyTerms(args.answer)))
      [] helper = "_check_direct_answer_patterns" ->
            Returned(CheckDirectAnswerPatterns(args.query, args.answer))
      [] helper = "_evaluate_semantic_relevance" ->
            Returned(EvaluateSemanticRelevance(args.query, args.answer))
      [] helper = "_evaluate_aspect_coverage" ->
            Returned(EvaluateAspectCoverage(args.query, args.answer,
                                            AnalyzeQueryAspects(args.query, h)))
      [] helper = "evaluate" -> RelevanceEvaluate(args.query, args.answer, None, None, h)
      [] helper = "_compare_numerical_values" ->
            Returned(CompareNumericalValues(args.answer, args.expected_answer.text))
      [] helper = "_check_factual_consistency" ->
            Returned(CheckFactualConsistency(args.answer, args.expected_answer.text))
      [] helper = "expected_coverage_score" ->
            Returned(ExpectedCoverageScore(args.answer, args.expected_answer))
      [] helper = "AccuracyEvaluator.evaluate" ->
            AccuracyEvaluate(args.query, args.answer, None, args.expected_answer, h)

InitSub ==
    /\ hashSeed \in HashSeeds
    /\ evaluators = NewEvaluators
    /\ raising = {}
    /\ request = [query |-> "", answer |-> "", expected_answer |-> None]
    /\ pc = "ready"
    /\ called = ""
    /\ result = NoResult
    /\ before = NoResult
    /\ threads = <<>>

CallHelper(helper) ==
    /\ pc = "ready"
    /\ pc' = "done"
    /\ called' = helper
    /\ \E args \in HelperArguments(helper) :
          /\ request' = args
          /\ result' = CallOf(helper, args, hashSeed)
    /\ UNCHANGED <<hashSeed, evaluators, raising, before, threads>>

NextSub == \E helper \in Helpers : CallHelper(helper)

SpecSub == InitSub /\ [][NextSub]_vars

(***************************************************************************)
(* Properties of one scorer call (specification Spec)                      *)
(***************************************************************************)
ScorerReturned == pc = "done" /\ called \in Range(Names) /\ ~result.raised

\* C1: the score a scorer returns lies in [0, 1], and so does every sub-score
\* that enters its weighted sum, the precision against an expected answer and
\* the expected coverage included.
C1_ScoresInUnitInterval ==
    ScorerReturned =>
        /\ InUnit(result.score)
        /\ \A name \in DOMAIN result.locals : InUnit(result.locals[name])

\* The accuracy scorer compared 50 with the expected 7: the relative error is
\* above 1 and the numerical accuracy is floored at 0, so that the precision
\* is half the specificity.
C1_Witness ==
    /\ ScorerReturned
    /\ called = "accuracy"
    /\ Truthy(request.expected_answer)
    /\ HasNumber(request.answer)
    /\ HasNumber(request.expected_answer.text)
    /\ result.locals.precision_score
         = RDiv(MeasureSpecificity(request.answer), Num(2))

\* C5: a scorer called with strings (empty ones included) and an absent, empty
\* or non-empty context and expected answer returns a pair and never raises.
C5_ScorersNeverRaise ==
    pc = "done" /\ called \in Range(Names) =>
        /\ ~result.raised
        /\ DOMAIN result = {"raised", "locals", "score", "details"}

\* A scorer returned for an empty query and an empty answer compared with an
\* empty expected answer.
C5_Witness ==
    /\ ScorerReturned
    /\ called = "relevance"
    /\ request.query = ""
    /\ request.answer = ""
    /\ request.expected_answer = Some("")

TokenSet(text) == Range(Split(Lower(text)))

Jaccard(A, B) ==
    IF A = {} /\ B = {} THEN Num(1)
    ELSE IF A = {} \/ B = {} THEN Num(0)
    ELSE Frac(Cardinality(A \cap B), Cardinality(A \cup B))

\* C8: the text similarity is the Jaccard index of the two case-insensitive
\* whitespace-token sets (1 when both are empty, 0 when exactly one is); it is
\* 1 for a text and itself, the same for the arguments exchanged, and in [0, 1].
C8_TextSimilarityIsJaccard ==
    pc = "done" /\ called = "similarity" =>
        /\ ~result.raised
        /\ result.score = Jaccard(TokenSet(result.text1), TokenSet(result.text2))
        /\ result.text1 = result.text2 => result.score = Num(1)
        /\ result.score = CalculateTextSimilarity(result.text2, result.text1)
        /\ InUnit(result.score)

\* Two different texts that share some of their words, one of them only up to
\* the case of a letter.
C8_Witness ==
    /\ pc = "done"
    /\ called = "similarity"
    /\ result.text1 # result.text2
    /\ "The" \in Range(Split(result.text2))
    /\ "the" \in Range(Split(result.text1))
    /\ RLt(Num(0), result.score)
    /\ RLt(result.score, Num(1))

WeightedSum(values, weights) ==
    SumSeq([k \in 1..Len(values) |-> RMul(values[k], Frac(weights[k], 100))])

\* C9: the score of each scorer is the sum of its sub-scores weighted
\* 0.4/0.3/0.3 (relevance), 0.3/0.3/0.2/0.2 (accuracy and coherence) and
\* 0.3/0.25/0.25/0.2 (completeness).
C9_ScoreIsWeightedSum ==
    ScorerReturned =>
        LET sub == result.locals
        IN  /\ called = "relevance" =>
                 result.score = WeightedSum(<<sub.term_overlap_score, sub.direct_answer_score,
                                              sub.semantic_score>>, <<40, 30, 30>>)
            /\ called = "accuracy" =>
                 result.score = WeightedSum(<<sub.similarity_score,
                                              sub.factual_consistency_score,
                                              sub.precision_score,
                                              sub.uncertainty_score>>, <<30, 30, 20, 20>>)
            /\ called = "coherence" =>
                 result.score = WeightedSum(<<sub.structure_score, sub.flow_score,
                                              sub.readability_score,
                                              sub.consistency_score>>, <<30, 30, 20, 20>>)
            /\ called = "completeness" =>
                 result.score = WeightedSum(<<sub.coverage_score, sub.depth_score,
                                              sub.comprehensive_score,
                                              sub.expected_coverage_score>>,
                                            <<30, 25, 25, 20>>)

\* The accuracy scorer returned with a factual consistency and a precision
\* that differ, so that their weights matter.
C9_Witness ==
    /\ ScorerReturned
    /\ called = "accuracy"
    /\ result.locals.factual_consistency_score # result.locals.precision_score

BandNames ==
    [relevance |-> <<"Highly relevant", "Moderately relevant", "Somewhat relevant",
                     "Low relevance">>,
     accuracy |-> <<"High accuracy", "Good accuracy", "Moderate accuracy", "Low accuracy">>,
     coherence |-> <<"Excellent coherence", "Good coherence", "Moderate coherence",
                     "Poor coherence">>,
     completeness |-> <<"Highly complete", "Good completeness", "Moderate completeness",
                        "Low completeness">>]

\* C10: details holds every sub-score of the weighted sum rounded to three
\* decimals, and an analysis that names the band of the unrounded score:
\* the first for score >= 0.8, the second for 0.6 <= score < 0.8, the third
\* for 0.4 <= score < 0.6 and the last otherwise.
C10_DetailsExplainScore ==
    ScorerReturned =>
        /\ \A name \in DOMAIN result.locals :
              /\ name \in DOMAIN result.details
              /\ result.details[name] = Round3(result.locals[name])
        /\ \E band \in 1..4 :
              /\ StartsWith(result.details.analysis, BandNames[called][band])
              /\ \A other \in (1..4) \ {band} :
                    ~StartsWith(result.details.analysis, BandNames[called][other])
              /\ band = 1 <=> RGe(result.score, Frac(8, 10))
              /\ band = 2 <=> RGe(result.score, Frac(6, 10)) /\ RLt(result.score, Frac(8, 10))
              /\ band = 3 <=> RGe(result.score, Frac(4, 10)) /\ RLt(result.score, Frac(6, 10))
              /\ band = 4 <=> RLt(result.score, Frac(4, 10))

\* The accuracy scorer returned a score in the third band, with a sub-score
\* that rounding changes.
C10_Witness ==
    /\ ScorerReturned
    /\ called = "accuracy"
    /\ RGe(result.score, Frac(4, 10))
    /\ RLt(result.score, Frac(6, 10))
    /\ \E name \in DOMAIN result.locals : result.details[name] # result.locals[name]

(***************************************************************************)
(* Properties of an aggregate evaluation (specification SpecAgg)           *)
(***************************************************************************)
Responded == pc = "done" /\ called = "/evaluate" /\ ~result.raised

Recognized(criteria) ==
    {criteria[k] : k \in 1..Len(criteria)}
        \cap {"relevance", "accuracy", "coherence", "completeness"}

\* C2: /evaluate answers whatever names are requested; detailed_scores has a
\* key for every recognized name and for no other; overall_score is the mean
\* of the scores computed (rounded to three decimals in the response), or 0
\* when no name was recognized; for ["relevance", "bogus"] detailed_scores has
\* the relevance key only and overall_score equals that score.
C2_MeanOfComputedScores ==
    pc = "done" /\ called = "/evaluate" =>
        /\ raising \cap Recognized(request.evaluation_criteria) = {} => ~result.raised
        /\ ~result.raised =>
            LET scores == result.locals.detailed_scores
                reported == result.response.detailed_scores
            IN  /\ Range(DictKeys(scores)) = Recognized(request.evaluation_criteria)
                /\ DictKeys(reported) = DictKeys(scores)
                /\ Cardinality(Range(DictKeys(scores))) = Len(scores)
                /\ \A k \in 1..Len(scores) : reported[k].value = Round3(scores[k].value)
                /\ scores = <<>> => result.locals.overall_score = Num(0)
                /\ scores # <<>> =>
                      RMul(result.locals.overall_score, Num(Len(scores)))
                          = SumSeq([k \in 1..Len(scores) |-> scores[k].value])
                /\ result.response.overall_score = Round3(result.locals.overall_score)
                /\ request.evaluation_criteria = <<"relevance", "bogus">> =>
                      /\ DictKeys(reported) = <<"relevance">>
                      /\ result.response.overall_score = reported[1].value
                      /\ result.locals.overall_score = scores[1].value

\* An unknown name was requested between two recognized ones, which were both
\* scored, differently.
C2_Witness ==
    /\ Responded
    /\ request.evaluation_criteria = <<"bogus", "coherence", "completeness">>
    /\ DictKeys(result.response.detailed_scores) = <<"coherence", "completeness">>
    /\ result.locals.detailed_scores[1].value # result.locals.detailed_scores[2].value

Advisory ==
    [relevance |-> "Consider making the answer more relevant to the specific query",
     accuracy |-> "Verify factual accuracy and provide more precise information",
     coherence |-> "Improve logical flow and structure of the response",
     completeness |-> "Provide more comprehensive coverage of the topic"]

\* C4: the recommendations are one advisory for each evaluated dimension that
\* scored below 0.6, in the order of evaluation, and nothing else; when there
\* is no such dimension they are the single positive message; they are never
\* empty.
C4_OneAdvisoryPerLowScore ==
    Responded =>
        LET scores == result.locals.detailed_scores
            low == SelectSeq(scores, LAMBDA entry : RLt(entry.value, Frac(6, 10)))
            recommendations == result.response.evaluation_summary.recommendations
        IN  /\ recommendations # <<>>
            /\ low = <<>> =>
                  recommendations =
                      <<"Great job! The response meets quality standards across all criteria">>
            /\ low # <<>> =>
                  recommendations = [k \in 1..Len(low) |-> Advisory[low[k].key]]

\* All four dimensions were evaluated, two of them scored below 0.6 and two
\* did not.
C4_Witness ==
    /\ Responded
    /\ request.evaluation_criteria = Names
    /\ Len(result.response.evaluation_summary.recommendations) = 2
    /\ RGe(DictGet(result.locals.detailed_scores, "relevance"), Frac(6, 10))
    /\ RLt(DictGet(result.locals.detailed_scores, "accuracy"), Frac(6, 10))

\* The names an aggregate evaluation was asked to evaluate.
Requested ==
    IF called = "/evaluate" THEN Recognized(request.evaluation_criteria)
    ELSE Range(Names)

\* C3: when a scorer raises during an aggregate evaluation, at /evaluate or in
\* the demo, the evaluation still returns: the failed dimension is reported
\* with score 0 and an error annotation, and every other requested dimension
\* is reported with its score.
C3_FailureIsPerDimension ==
    /\ pc = "done"
    /\ called \in {"/evaluate", "evaluate_answer"}
    /\ raising \cap Requested # {}
    => /\ ~result.raised
       /\ LET scores == IF called = "/evaluate" THEN result.locals.detailed_scores
                        ELSE result.results
              details == IF called = "/evaluate"
                         THEN result.response.evaluation_summary.evaluation_details
                         ELSE result.detailed_results
          IN  \A criterion \in Requested :
                 /\ DictHas(scores, criterion)
                 /\ DictHas(details, criterion)
                 /\ criterion \in raising =>
                       /\ DictGet(scores, criterion) = Num(0)
                       /\ "error" \in DOMAIN DictGet(details, criterion)
                 /\ criterion \notin raising =>
                       "analysis" \in DOMAIN DictGet(details, criterion)

(***************************************************************************)
(* Properties of repeated and of concurrent calls                          *)
(***************************************************************************)
\* C6: two calls of the same scorer on the same query, answer, context and
\* expected answer return the same score and the same details, the order of
\* the elements of query_terms, answer_terms and key_topics included.
C6_RepeatedCallAgrees ==
    pc = "done" /\ called \in Range(Names) => result = before

HelperReturned(helper) == pc = "done" /\ called = helper /\ ~result.raised

SingleSentence(answer) == Len(SplitIntoSentences(answer)) = 1

\* C11, as the code has it: an answer of a single sentence returns early
\* from structure scoring with 0.7 when it has more than five words and with
\* 0.4 otherwise, so a single sentence of exactly five words scores 0.4 and
\* one of six words 0.7; it returns early from flow scoring with 0.8.
C11_SingleSentenceShortcut ==
    /\ HelperReturned("_evaluate_structure") /\ SingleSentence(request.answer)
          => result.score = IF WordCount(request.answer) > 5 THEN Frac(7, 10)
                            ELSE Frac(4, 10)
    /\ HelperReturned("_evaluate_structure") /\ request.answer = "Paris is the capital city."
          => result.score = Frac(4, 10)
    /\ HelperReturned("_evaluate_structure")
          /\ request.answer = "The capital of France is Paris."
          => result.score = Frac(7, 10)
    /\ HelperReturned("_evaluate_logical_flow") /\ SingleSentence(request.answer)
          => result.score = Frac(8, 10)

\* C11 as stated: a single sentence of exactly five words has the structure
\* score 0.7.
C11_FiveWordsScoreSevenTenths ==
    /\ HelperReturned("_evaluate_structure")
    /\ SingleSentence(request.answer)
    /\ WordCount(request.answer) = 5
    => result.score = Frac(7, 10)

\* The structure score of a single sentence of five words was computed.
C11_Witness ==
    /\ HelperReturned("_evaluate_structure")
    /\ request.answer = "Paris is the capital city."
    /\ SingleSentence(request.answer)
    /\ WordCount(request.answer) = 5
    /\ result.score = Frac(4, 10)

\* C12: the term overlap is |query_terms & answer_terms| / |query_terms| and
\* 0 for a query without key terms, lies in [0, 1], and does not decrease
\* when the answer's key terms grow: every answer whose key terms include
\* those of the scored answer has at least its overlap with the same query.
C12_TermOverlapMonotone ==
    HelperReturned("_calculate_term_overlap") =>
        LET query_terms == ExtractKeyTerms(request.query)
            answer_terms == ExtractKeyTerms(request.answer)
        IN  /\ InUnit(result.score)
            /\ query_terms = {} => result.score = Num(0)
            /\ query_terms # {} =>
                  result.score = Frac(Cardinality(query_terms \cap answer_terms),
                                      Cardinality(query_terms))
            /\ \A larger \in FirstOf(SubAnswers, NumSubAnswers) :
                  answer_terms \subseteq ExtractKeyTerms(larger) =>
                      RLe(result.score,
                          CalculateTermOverlap(query_terms, ExtractKeyTerms(larger)))

\* The overlap of "Paris." with the query about the capital of France was
\* computed, and an answer that adds the query's keyword "capital" to its
\* key terms has a larger overlap.
C12_Witness ==
    /\ HelperReturned("_calculate_term_overlap")
    /\ request.query = "What is the capital of France?"
    /\ request.answer = "Paris."
    /\ result.score = Num(0)
    /\ ExtractKeyTerms("Paris.") \subseteq ExtractKeyTerms("Paris is the capital city.")
    /\ "capital" \in ExtractKeyTerms(request.query)
                      \cap ExtractKeyTerms("Paris is the capital city.")
    /\ "Paris is the capital city." \in FirstOf(SubAnswers, NumSubAnswers)
    /\ RLt(result.score,
           CalculateTermOverlap(ExtractKeyTerms(request.query),
                                ExtractKeyTerms("Paris is the capital city.")))

\* The value of the first number of a text that has one
FirstNumberValue(t) == FloatOf(SubSeq(t, FirstNumber(t)[1], FirstNumber(t)[2] - 1))

\* C13: the numeric comparison looks at the first number of the answer and
\* at the first number of the expected answer only: 0.8 when neither text has
\* a number, 0.3 when exactly one has, 1.0 when the two numbers are equal and
\* max(0, 1 - |a - e| / max(|e|, 1)) otherwise, which is below 1.0; 50
\* against 100 gives 0.5, 50 against 50 gives 1.0, and a later 100 in the
\* answer does not change the 0.5.
C13_NumericComparison ==
    HelperReturned("_compare_numerical_values") =>
        LET answer == request.answer
            expected_answer == request.expected_answer.text
        IN  /\ ~HasNumber(answer) /\ ~HasNumber(expected_answer)
                  => result.score = Frac(8, 10)
            /\ HasNumber(answer) # HasNumber(expected_answer)
                  => result.score = Frac(3, 10)
            /\ HasNumber(answer) /\ HasNumber(expected_answer)
                  => result.score =
                        IF FirstNumberValue(answer) = FirstNumberValue(expected_answer)
                        THEN Num(1)
                        ELSE RMax(Num(0),
                                  RSub(Num(1),
                                       RDiv(RAbs(RSub(FirstNumberValue(answer),
                                                      FirstNumberValue(expected_answer))),
                                            RMax(RAbs(FirstNumberValue(expected_answer)),
                                                 Num(1)))))
            /\ result.score = Num(1)
                  => /\ HasNumber(answer) /\ HasNumber(expected_answer)
                     /\ FirstNumberValue(answer) = FirstNumberValue(expected_answer)
            /\ answer \in {"The result is 50.", "The result is 50. Not 100."}
                  => /\ expected_answer = "The result is 100." => result.score = Frac(1, 2)
                     /\ expected_answer = "The result is 50." => result.score = Num(1)

\* 50 was compared with the expected 100.
C13_Witness ==
    /\ HelperReturned("_compare_numerical_values")
    /\ request.answer = "The result is 50."
    /\ request.expected_answer = Some("The result is 100.")
    /\ FirstNumberValue(request.answer) = Num(50)
    /\ FirstNumberValue(request.expected_answer.text) = Num(100)
    /\ result.score = Frac(1, 2)

\* The cue classes of C14, and the number of classes a text has a cue of.
GoodUncertaintyClasses ==
    <<<<"according to", "based on", "research suggests", "studies show">>,
      <<"it depends", "varies", "may vary">>,
      <<"generally", "typically", "commonly", "usually">>>>

PoorUncertaintyClasses ==
    <<<<"definitely", "absolutely", "certainly", "without doubt">>,
      <<"never", "always", "all", "none", "every">>>>

MatchedClasses(t, classes) ==
    Cardinality({k \in 1..Len(classes) : SearchWords(Lower(t), classes[k])})

\* C14: the uncertainty handling score is 0.7 plus 0.1 for each of the three
\* good classes the lower-cased answer has a cue of, minus 0.1 for each of the
\* two poor classes it has a cue of, clamped to [0, 1]; a class counts once,
\* so "always" and "never" together cost 0.1, and the answer with
\* "definitely", "always" and "never" and no good cue scores 0.5.
C14_UncertaintyHandling ==
    HelperReturned("_check_uncertainty_handling") =>
        /\ result.score =
              Clamp01(Frac(7 + MatchedClasses(request.answer, GoodUncertaintyClasses)
                             - MatchedClasses(request.answer, PoorUncertaintyClasses), 10))
        /\ request.answer = "It is definitely always true that X never happens."
              => result.score = Frac(5, 10) /\ RLt(result.score, Frac(7, 10))
        /\ request.answer = "It always rains. It never stops."
              => result.score = Frac(6, 10)

\* The answer with the three absolutist cues of two classes was scored.
C14_Witness ==
    /\ HelperReturned("_check_uncertainty_handling")
    /\ request.answer = "It is definitely always true that X never happens."
    /\ MatchedClasses(request.answer, GoodUncertaintyClasses) = 0
    /\ MatchedClasses(request.answer, PoorUncertaintyClasses) = 2
    /\ RLt(result.score, Frac(7, 10))

\* C15: for the query "What is the capital of France?" and the answer "The
\* capital of France is Paris." the term overlap is above 0.5, the direct
\* answer score at least 0.2 and the relevance score at least 0.6; and every
\* query that starts with "what" (in any case) whose lower-cased answer
\* contains "is", "are", "means" or "refers" has a direct answer score of at
\* least 0.2.
C15_DirectAnswerToWhat ==
    /\ HelperReturned("evaluate")
          /\ request.query = "What is the capital of France?"
          /\ request.answer = "The capital of France is Paris."
          => /\ RGt(result.locals.term_overlap_score, Frac(5, 10))
             /\ RGe(result.locals.direct_answer_score, Frac(2, 10))
             /\ RGe(result.score, Frac(6, 10))
    /\ HelperReturned("_check_direct_answer_patterns")
          /\ StartsWith(Lower(request.query), "what")
          /\ ContainsAny(Lower(request.answer), {"is", "are", "means", "refers"})
          => RGe(result.score, Frac(2, 10))

\* The relevance of the answer about Paris to the query about the capital of
\* France was evaluated.
C15_Witness ==
    /\ HelperReturned("evaluate")
    /\ request.query = "What is the capital of France?"
    /\ request.answer = "The capital of France is Paris."
    /\ result.locals.term_overlap_score = Num(1)
    /\ result.locals.direct_answer_score = Frac(2, 10)
    /\ result.score = Frac(67, 100)

\* The classes of depth indicators, and whether a text has one of them.
DepthIndicatorClasses ==
    <<<<"because", "since", "due to", "as a result", "therefore">>,
      <<"for example", "for instance", "such as", "including">>,
      <<"however", "but", "although", "while", "whereas">>,
      <<"furthermore", "moreover", "additionally", "also">>>>

HasDepthIndicator(t) ==
    \E k \in 1..Len(DepthIndicatorClasses) : SearchWords(Lower(t), DepthIndicatorClasses[k])

\* C16: the depth score of an answer of fewer than 10 words without a depth
\* indicator is at most 0.3 (the base 0.5 less the 0.2 for the length), as for
\* "Plants make food."; and the coverage of that answer for the query
\* "Explain how photosynthesis works." stays at the base 0.5.
C16_ShortAnswerIsShallow ==
    /\ HelperReturned("_evaluate_response_depth")
          /\ WordCount(request.answer) < 10
          /\ ~HasDepthIndicator(request.answer)
          => RLe(result.score, Frac(3, 10))
    /\ HelperReturned("_evaluate_response_depth") /\ request.answer = "Plants make food."
          => result.score = Frac(3, 10)
    /\ HelperReturned("_evaluate_aspect_coverage")
          /\ request.query = "Explain how photosynthesis works."
          /\ request.answer = "Plants make food."
          => result.score = Frac(5, 10)

\* The depth of the three-word answer without a depth indicator was scored.
C16_Witness ==
    /\ HelperReturned("_evaluate_response_depth")
    /\ request.answer = "Plants make food."
    /\ WordCount(request.answer) < 10
    /\ ~HasDepthIndicator(request.answer)
    /\ result.score = Frac(3, 10)

\* The classes of C17 a text matches: the specific ones, the bigram of two
\* capitalised words among them, and the vague ones.
SpecificClasses(text) ==
    BoolToInt(HasQuantityWithUnit(Lower(text)))
  + BoolToInt(SearchWords(Lower(text),
                  <<"exactly", "precisely", "specifically", "particularly">>))
  + BoolToInt(HasFourDigits(Lower(text)))
  + BoolToInt(HasCapitalizedBigram(text))

VagueClasses(text) ==
    BoolToInt(SearchWords(Lower(text),
                  <<"some", "many", "few", "several", "various", "different",
                    "often", "sometimes", "usually">>))
  + BoolToInt(SearchWords(Lower(text),
                  <<"approximately", "roughly", "about", "around", "nearly">>))
  + BoolToInt(SearchWords(Lower(text),
                  <<"might", "could", "may", "possibly", "probably", "likely">>))

\* C17: the specificity is 0.5 plus 0.1 for each specific class the text
\* matches (a quantity with a unit, exactly/precisely, a four-digit year, two
\* capitalised words in a row) minus 0.05 for each of the three vague classes
\* it matches, clamped to [0, 1]; a text whose only specific indicator is a
\* bigram of capitalised words, as "New York is big.", scores 0.6.
C17_SpecificityCountsProperNouns ==
    HelperReturned("_measure_specificity") =>
        /\ result.score =
              Clamp01(Frac(50 + 10 * SpecificClasses(request.answer)
                              - 5 * VagueClasses(request.answer), 100))
        /\ request.answer = "New York is big." => result.score = Frac(6, 10)

\* The penalties of C18, in tenths: each pattern is searched in the whole
\* lower-cased answer.
ContradictionPenalties(answer) ==
    3 * BoolToInt(SearchWordsThen(Lower(answer), <<"yes", "true", "correct">>,
                                  <<"no", "false", "incorrect">>))
  + 2 * BoolToInt(SearchWordsThen(Lower(answer), <<"always">>, <<"never">>))
  + 2 * BoolToInt(SearchWordsThen(Lower(answer), <<"all">>, <<"none">>))
  + 1 * BoolToInt(SearchWordsThen(Lower(answer), <<"increase">>, <<"decrease">>))

\* C18, as the code has it: without an expected answer the factual
\* consistency of an answer of fewer than two sentences is 0.8 whatever it
\* contains; that of an answer of two or more sentences is 0.8 less the
\* penalties of the patterns found in the whole lower-cased answer, clamped
\* to [0, 1]. "always ... never" costs 0.2 in a two-sentence answer and
\* nothing in a one-sentence answer.
C18_InternalConsistency ==
    HelperReturned("_check_internal_consistency") =>
        /\ Len(SplitIntoSentences(request.answer)) < 2 => result.score = Frac(8, 10)
        /\ Len(SplitIntoSentences(request.answer)) >= 2
              => result.score =
                    Clamp01(Frac(8 - ContradictionPenalties(request.answer), 10))
        /\ request.answer = "It always rains. It never stops."
              => result.score = Frac(6, 10)
        /\ request.answer = "It is definitely always true that X never happens."
              => result.score = Frac(8, 10)

\* C18 as stated: the penalties are subtracted for every answer, however
\* many sentences it has.
C18_PenaltiesForEveryAnswer ==
    HelperReturned("_check_internal_consistency") =>
        result.score = Clamp01(Frac(8 - ContradictionPenalties(request.answer), 10))

\* The internal consistency of a one-sentence answer with "always ... never"
\* was scored.
C18_Witness ==
    /\ HelperReturned("_check_internal_consistency")
    /\ request.answer = "It is definitely always true that X never happens."
    /\ Len(SplitIntoSentences(request.answer)) = 1
    /\ ContradictionPenalties(request.answer) = 2
    /\ result.score = Frac(8, 10)

\* The antonym table of C19, and whether one text contains one word of a pair
\* and the other text the other word.
AntonymPairs ==
    {<<"true", "false">>, <<"yes", "no">>, <<"increase", "decrease">>,
     <<"positive", "negative">>, <<"good", "bad">>, <<"high", "low">>}

ShareAntonyms(fact1, fact2) ==
    \E pair \in AntonymPairs : \E i \in {1, 2} :
        Contains(Lower(fact1), pair[i]) /\ Contains(Lower(fact2), pair[3 - i])

\* The pairs of a key fact of the answer and a key fact of the expected
\* answer whose similarity is above 0.7, and those whose similarity is in
\* (0.3, 0.7] and that share antonyms.
MatchingFacts(answer_facts, expected_facts) ==
    {p \in (1..Len(answer_facts)) \X (1..Len(expected_facts)) :
        RGt(CalculateTextSimilarity(answer_facts[p[1]], expected_facts[p[2]]), Frac(7, 10))}

ContradictingFacts(answer_facts, expected_facts) ==
    {p \in (1..Len(answer_facts)) \X (1..Len(expected_facts)) :
        /\ RGt(CalculateTextSimilarity(answer_facts[p[1]], expected_facts[p[2]]),
               Frac(3, 10))
        /\ RLe(CalculateTextSimilarity(answer_facts[p[1]], expected_facts[p[2]]),
               Frac(7, 10))
        /\ ShareAntonyms(answer_facts[p[1]], expected_facts[p[2]])}

\* C19: with an expected answer the factual consistency is 0.5 when the
\* expected answer has no key fact, and otherwise the number of matching
\* pairs of facts less the number of contradicting pairs, divided by the
\* number of expected facts and clamped to [0, 1]; the antonym test gives the
\* same verdict with its two arguments exchanged.
C19_FactualConsistency ==
    HelperReturned("_check_factual_consistency") =>
        LET answer_facts == ExtractKeyFacts(request.answer)
            expected_facts == ExtractKeyFacts(request.expected_answer.text)
        IN  /\ expected_facts = <<>> => result.score = Frac(5, 10)
            /\ expected_facts # <<>> =>
                  result.score =
                      Clamp01(Frac(Cardinality(MatchingFacts(answer_facts, expected_facts))
                                   - Cardinality(ContradictingFacts(answer_facts,
                                                                    expected_facts)),
                                   Len(expected_facts)))
            /\ \A i \in 1..Len(answer_facts) : \A j \in 1..Len(expected_facts) :
                  AreContradictory(answer_facts[i], expected_facts[j])
                      = AreContradictory(expected_facts[j], answer_facts[i])

\* "The rate is low." was checked against an expected answer that states the
\* same fact and its opposite: one match and one contradiction, found with
\* the antonym pair (high, low) in the reverse direction.
C19_Witness ==
    /\ HelperReturned("_check_factual_consistency")
    /\ request.answer = "The rate is low."
    /\ request.expected_answer = Some("The rate is high. The rate is low.")
    /\ Cardinality(MatchingFacts(ExtractKeyFacts(request.answer),
                                 ExtractKeyFacts(request.expected_answer.text))) = 1
    /\ Cardinality(ContradictingFacts(ExtractKeyFacts(request.answer),
                                      ExtractKeyFacts(request.expected_answer.text))) = 1
    /\ result.score = Num(0)

\* The three terms of C20: for the length of the answer, for a lower-cased
\* whitespace token the query and the answer share, and for an answer that
\* does not start with a refusal.
LengthTerm(answer) ==
    IF 20 <= WordCount(answer) /\ WordCount(answer) <= 200 THEN Frac(3, 10)
    ELSE IF WordCount(answer) < 5 THEN Frac(-2, 10)
    ELSE Num(0)

TopicTerm(query, answer) ==
    IF Range(Split(Lower(query))) \cap Range(Split(Lower(answer))) # {}
    THEN Frac(4, 10) ELSE Num(0)

RefusalPrefixed(answer) == StartsWithAny(Lower(answer), {"i don't", "i cannot", "sorry"})

\* C20, as the code has it: the semantic score is L + O + R clamped to
\* [0, 1], where R is 0.3 for an answer that is not blank and does not start
\* with a refusal, and 0 for the empty answer, for an answer of white space
\* only and for an answer that starts with a refusal.
C20_SemanticRelevance ==
    HelperReturned("_evaluate_semantic_relevance") =>
        /\ result.score =
              Clamp01(RAdd(RAdd(LengthTerm(request.answer),
                                TopicTerm(request.query, request.answer)),
                           IF Strip(request.answer) # "" /\ ~RefusalPrefixed(request.answer)
                           THEN Frac(3, 10) ELSE Num(0)))
        /\ request.answer \in {"", "   "} => result.score = Num(0)

\* C20 as stated: R is 0.3 for every answer that does not start with a
\* refusal, the empty answer included.
C20_EmptyAnswerIsNoRefusal ==
    HelperReturned("_evaluate_semantic_relevance") =>
        result.score =
            Clamp01(RAdd(RAdd(LengthTerm(request.answer),
                              TopicTerm(request.query, request.answer)),
                         IF ~RefusalPrefixed(request.answer) THEN Frac(3, 10) ELSE Num(0)))

\* The semantic relevance of the empty answer was scored.
C20_Witness ==
    /\ HelperReturned("_evaluate_semantic_relevance")
    /\ request.answer = ""
    /\ request.query = "What is the capital of France?"
    /\ ~RefusalPrefixed(request.answer)
    /\ result.score = Num(0)

\* Whether some sentence of the answer has a similarity above 0.3 to one
\* sentence of the expected answer, and the number of the expected sentences
\* from the i-th on for which that is so.
IsCovered(expected_sentence, answer_sentences) ==
    \E j \in 1..Len(answer_sentences) :
        RGt(CalculateTextSimilarity(expected_sentence, answer_sentences[j]), Frac(3, 10))

RECURSIVE CoveredFrom(_, _, _)
CoveredFrom(i, expected_sentences, answer_sentences) ==
    IF i > Len(expected_sentences) THEN 0
    ELSE BoolToInt(IsCovered(expected_sentences[i], answer_sentences))
         + CoveredFrom(i + 1, expected_sentences, answer_sentences)

\* C21: the expected coverage of the completeness scorer is the neutral 0.7
\* when the expected answer is absent, empty or has no sentence, and else the
\* number of expected sentences to which some answer sentence is similar
\* above 0.3, each counted once, over the number of expected sentences, a
\* ratio in [0, 1].
C21_ExpectedCoverage ==
    HelperReturned("expected_coverage_score") =>
        LET expected_sentences ==
                IF request.expected_answer.some
                THEN SplitIntoSentences(request.expected_answer.text) ELSE <<>>
            answer_sentences == SplitIntoSentences(request.answer)
        IN  /\ expected_sentences = <<>> => result.score = Frac(7, 10)
            /\ expected_sentences # <<>> =>
                  /\ result.score = Frac(CoveredFrom(1, expected_sentences, answer_sentences),
                                         Len(expected_sentences))
                  /\ InUnit(result.score)

\* An expected sentence that two sentences of the answer repeat was counted
\* once: the coverage is 1.
C21_Witness ==
    /\ HelperReturned("expected_coverage_score")
    /\ request.answer = "The rate is high. The rate is high."
    /\ request.expected_answer = Some("The rate is high.")
    /\ result.score = Frac(1, 1)

\* One of the two expected sentences was covered, and an expected answer of
\* punctuation only was scored as neutral.
C21_HalfCovered ==
    /\ HelperReturned("expected_coverage_score")
    /\ request.answer = "The result is 50."
    /\ request.expected_answer = Some("The result is 50. Plants make food.")
    /\ result.score = Frac(1, 2)

C21_NoExpectedSentence ==
    /\ HelperReturned("expected_coverage_score")
    /\ request.expected_answer = Some("?!")
    /\ result.score = Frac(7, 10)

\* The terms of C22 in hundredths: the adjustment for count transition
\* phrases over n - 1 sentence boundaries, and the bonus for the adjacent
\* sentences that share two words or more.
TransitionTerm(count, n) ==
    IF 2 * (n - 1) <= 10 * count /\ 10 * count <= 8 * (n - 1) THEN 20
    ELSE IF 10 * count > 8 * (n - 1) THEN -10
    ELSE 0

SharedWords(first, second) ==
    Cardinality({word \in Range(Split(Lower(first))) :
                    \E k \in 1..Len(Split(Lower(second))) : Split(Lower(second))[k] = word})

ContinuityTerm(sentences) ==
    IntMin(20, 2 * Cardinality({i \in 1..(Len(sentences) - 1) :
                                   SharedWords(sentences[i], sentences[i + 1]) >= 2}))

\* C22: the flow of an answer of at most one sentence is 0.8; that of an
\* answer of n >= 2 sentences is 0.7, plus 0.2 when the transition phrases
\* per sentence boundary are in [0.2, 0.8] or less 0.1 when they are above
\* 0.8, plus 0.02 for each pair of adjacent sentences sharing two words or
\* more up to 0.2, clamped to [0, 1].
C22_LogicalFlow ==
    HelperReturned("_evaluate_logical_flow") =>
        LET sentences == SplitIntoSentences(request.answer)
            n == Len(sentences)
        IN  /\ n <= 1 => result.score = Frac(8, 10)
            /\ n >= 2 =>
                  result.score =
                      Clamp01(Frac(70 + TransitionTerm(TransitionCount(Lower(request.answer)), n)
                                      + ContinuityTerm(sentences),
                                   100))

\* One transition phrase on two boundaries and one pair of sentences that
\* shares two words: 0.7 + 0.2 + 0.02.
C22_Witness ==
    /\ HelperReturned("_evaluate_logical_flow")
    /\ request.answer = "Plants need light. However, plants need water. It rains."
    /\ result.score = Frac(92, 100)

\* Two transition phrases on one boundary cost 0.1, and eleven pairs of
\* sentences that share words earn 0.2.
C22_TooManyTransitions ==
    /\ HelperReturned("_evaluate_logical_flow")
    /\ request.answer = "First, plants absorb light. Then they make sugar."
    /\ result.score = Frac(6, 10)

C22_ContinuityCapped ==
    /\ HelperReturned("_evaluate_logical_flow")
    /\ Len(SplitIntoSentences(request.answer)) = 12
    /\ result.score = Frac(9, 10)

\* C24: an answer that is the expected answer word for word, with one key
\* fact or more, has the factual consistency 1, also when its sentences
\* resemble each other and hold words of the antonym table.
C24_IdenticalAnswerIsConsistent ==
    (/\ HelperReturned("_check_factual_consistency")
     /\ request.answer = request.expected_answer.text
     /\ ExtractKeyFacts(request.expected_answer.text) # <<>>)
        => result.score = Frac(1, 1)

\* The words a query is tested to start with.
InterrogativeWords == {"what", "how", "when", "where", "why", "who"}

ImperativeWords == {"explain", "describe", "list", "compare"}

\* C28: the direct-answer score is at most 0.5, since no query starts with
\* an interrogative word and with an imperative word, and the relevance
\* score is at most 0.85.
C28_DirectAnswerAtMostHalf ==
    /\ HelperReturned("_check_direct_answer_patterns") =>
          /\ RLe(result.score, Frac(5, 10))
          /\ ~(/\ StartsWithAny(Lower(request.query), InterrogativeWords)
               /\ StartsWithAny(Lower(request.query), ImperativeWords))
          /\ StartsWithAny(Lower(request.query), ImperativeWords) =>
                RLe(result.score, Frac(4, 10))
    /\ HelperReturned("evaluate") =>
          /\ RLe(result.locals.direct_answer_score, Frac(5, 10))
          /\ RLe(result.score, Frac(85, 100))

\* A what-question was answered with a cue phrase and a copula, in 23 words
\* that hold every key term of the query: the relevance score is 0.85.
C28_Witness ==
    /\ HelperReturned("evaluate")
    /\ StartsWith(Lower(request.query), "what")
    /\ result.locals.direct_answer_score = Frac(5, 10)
    /\ result.score = Frac(85, 100)

\* An imperative query was answered in more than ten words: 0.4.
C28_ImperativeAnswered ==
    /\ HelperReturned("_check_direct_answer_patterns")
    /\ StartsWithAny(Lower(request.query), ImperativeWords)
    /\ result.score = Frac(4, 10)

ComparedWithExpected ==
    /\ request.expected_answer.some
    /\ result.locals.similarity_score
           = CalculateTextSimilarity(request.answer, request.expected_answer.text)
    /\ result.locals.factual_consistency_score
           = CheckFactualConsistency(request.answer, request.expected_answer.text)
    /\ result.locals.precision_score
           = EvaluatePrecision(request.answer, request.expected_answer.text)

EvaluatedHeuristically ==
    /\ result.locals.similarity_score = Frac(5, 10)
    /\ result.locals.factual_consistency_score = CheckInternalConsistency(request.answer)
    /\ result.locals.precision_score = EvaluateAnswerPrecision(request.answer)

\* C23: the accuracy scorer reports has_expected_answer as true exactly when
\* it compared the answer with the expected answer and as false exactly when
\* it scored heuristically, whether the expected answer is absent, empty or
\* not, and the analysis ends with the words for the branch taken.
C23_FlagTellsTheBranch ==
    (ScorerReturned /\ called = "accuracy") =>
        /\ result.details.has_expected_answer <=> ComparedWithExpected
        /\ ~result.details.has_expected_answer <=> EvaluatedHeuristically
        /\ ComparedWithExpected =>
              EndsWith(result.details.analysis, " (compared against expected answer)")
        /\ EvaluatedHeuristically =>
              EndsWith(result.details.analysis, " (evaluated using heuristic methods)")

\* C25: a scorer returns the same score and details whatever the context;
\* the coherence scorer returns the same whatever the query and the expected
\* answer, and the relevance scorer the same whatever the expected answer.
C25_ContextIsIgnored ==
    ScorerReturned =>
        /\ \A context \in Contexts :
              result = Evaluate(called, [request EXCEPT !.context = context], hashSeed)
        /\ called = "coherence" =>
              /\ \A query \in FirstOf(Queries, NumQueries) :
                    result = Evaluate(called, [request EXCEPT !.query = query], hashSeed)
              /\ \A expected_answer \in FirstOf(ExpectedAnswers, NumExpected) :
                    result = Evaluate(called,
                                      [request EXCEPT !.expected_answer = expected_answer],
                                      hashSeed)
        /\ called = "relevance" =>
              \A expected_answer \in FirstOf(ExpectedAnswers, NumExpected) :
                  result = Evaluate(called,
                                    [request EXCEPT !.expected_answer = expected_answer],
                                    hashSeed)

\* The coherence scorer was called with a context, a query and an expected
\* answer, and returned what it returns for the answer alone.
C25_Witness ==
    /\ ScorerReturned
    /\ called = "coherence"
    /\ request.context.some
    /\ request.query # ""
    /\ Truthy(request.expected_answer)
    /\ request.answer # ""
    /\ result = CoherenceEvaluate("", request.answer, None, None, hashSeed)

(***************************************************************************)
(* Further properties of an aggregate evaluation (specification SpecAgg)   *)
(***************************************************************************)
\* The recognized names of criteria, each once, in the order in which they
\* occur first.
FirstRecognized(criteria) ==
    LET firsts == {k \in 1..Len(criteria) :
                      /\ criteria[k] \in Recognized(criteria)
                      /\ \A j \in 1..(k - 1) : criteria[j] # criteria[k]}
    IN  [i \in 1..Cardinality(firsts) |-> criteria[SortedSeq(firsts)[i]]]

\* The place of an advisory's dimension in a sequence of names, 0 if none.
PlaceOf(recommendation, order) ==
    LET places == {i \in 1..Len(order) : Advisory[order[i]] = recommendation}
    IN  IF places = {} THEN 0 ELSE CHOOSE i \in places : TRUE

\* C26: /evaluate handles the requested names in the order of the list and a
\* repeated name once: detailed_scores, evaluation_details and
\* criteria_evaluated hold each recognized name once in the order of its first
\* occurrence, overall_score is the sum of the scores over the number of
\* distinct recognized names, and the advisories come in that order.
C26_FirstOccurrenceOrder ==
    Responded =>
        LET order == FirstRecognized(request.evaluation_criteria)
            scores == result.locals.detailed_scores
            summary == result.response.evaluation_summary
        IN  /\ DictKeys(scores) = order
            /\ DictKeys(result.response.detailed_scores) = order
            /\ DictKeys(summary.evaluation_details) = order
            /\ summary.criteria_evaluated = order
            /\ \A k \in 1..Len(order) :
                  scores[k].value = Evaluate(order[k], request, hashSeed).score
            /\ order # <<>> =>
                  result.locals.overall_score
                      = RDiv(SumSeq(DictValues(scores)),
                             Num(Cardinality(Recognized(request.evaluation_criteria))))
            /\ \A i, j \in 1..Len(summary.recommendations) :
                  (/\ i < j
                   /\ PlaceOf(summary.recommendations[i], order) > 0
                   /\ PlaceOf(summary.recommendations[j], order) > 0)
                      => PlaceOf(summary.recommendations[i], order)
                            < PlaceOf(summary.recommendations[j], order)

\* coherence was requested before and after relevance: it was reported once,
\* before relevance, and its advisory came first.
C26_Witness ==
    /\ Responded
    /\ request.evaluation_criteria = <<"coherence", "relevance", "coherence">>
    /\ result.response.evaluation_summary.criteria_evaluated = <<"coherence", "relevance">>
    /\ result.response.evaluation_summary.recommendations
           = <<Advisory.coherence, Advisory.relevance>>

\* C27: when no requested name is recognized, the empty list included,
\* /evaluate raises nothing and answers with overall_score 0, an empty
\* detailed_scores, an empty criteria_evaluated and the positive message as
\* the only recommendation.
C27_NothingRecognized ==
    (/\ pc = "done"
     /\ called = "/evaluate"
     /\ Recognized(request.evaluation_criteria) = {})
        => /\ ~result.raised
           /\ result.status_code = 200
           /\ result.locals.overall_score = Num(0)
           /\ result.response.overall_score = Num(0)
           /\ result.response.detailed_scores = <<>>
           /\ result.response.evaluation_summary.criteria_evaluated = <<>>
           /\ result.response.evaluation_summary.evaluation_details = <<>>
           /\ result.response.evaluation_summary.recommendations
                 = <<"Great job! The response meets quality standards across all criteria">>

\* /evaluate answered a request for no criterion at all, and one for an
\* unknown name while an evaluator was failing.
C27_Witness ==
    /\ Responded
    /\ request.evaluation_criteria = <<>>
    /\ result.response.evaluation_summary.criteria_evaluated = <<>>
    /\ Len(result.response.evaluation_summary.recommendations) = 1

C27_UnknownNameOnly ==
    /\ Responded
    /\ request.evaluation_criteria = <<"bogus">>
    /\ raising # {}
    /\ result.response.overall_score = Num(0)

\* C30: for an empty answer without an expected answer the accuracy score is
\* 0.63, from the similarity 0.5, the consistency 0.8, the precision 0.5 and
\* the uncertainty handling 0.7, and the coherence score is 0.52, from the
\* structure 0, the flow 0.8, the readability 0.6 and the consistency 0.8;
\* /evaluate then recommends nothing about accuracy and, when coherence was
\* requested, gives the advisory on coherence.
C30_EmptyAnswer ==
    (Responded /\ request.answer = "" /\ ~request.expected_answer.some) =>
        LET scores == result.locals.detailed_scores
            details == result.response.evaluation_summary.evaluation_details
            recommendations == result.response.evaluation_summary.recommendations
        IN  /\ DictHas(scores, "accuracy") =>
                  /\ DictGet(scores, "accuracy") = Frac(63, 100)
                  /\ DictGet(details, "accuracy").similarity_score = Frac(5, 10)
                  /\ DictGet(details, "accuracy").factual_consistency_score = Frac(8, 10)
                  /\ DictGet(details, "accuracy").precision_score = Frac(5, 10)
                  /\ DictGet(details, "accuracy").uncertainty_score = Frac(7, 10)
            /\ DictHas(scores, "coherence") =>
                  /\ DictGet(scores, "coherence") = Frac(52, 100)
                  /\ DictGet(details, "coherence").structure_score = Num(0)
                  /\ DictGet(details, "coherence").flow_score = Frac(8, 10)
                  /\ DictGet(details, "coherence").readability_score = Frac(6, 10)
                  /\ DictGet(details, "coherence").consistency_score = Frac(8, 10)
            /\ Advisory.accuracy \notin Range(recommendations)
            /\ DictHas(scores, "coherence") <=> Advisory.coherence \in Range(recommendations)

\* All four dimensions of an empty answer were evaluated: the advisory on
\* coherence was given, none on accuracy.
C30_Witness ==
    /\ Responded
    /\ request.answer = ""
    /\ request.expected_answer = None
    /\ request.evaluation_criteria = Names
    /\ DictGet(result.response.detailed_scores, "accuracy") = Frac(63, 100)
    /\ DictGet(result.response.detailed_scores, "coherence") = Frac(52, 100)
    /\ Advisory.coherence \in Range(result.response.evaluation_summary.recommendations)
    /\ Advisory.accuracy \notin Range(result.response.evaluation_summary.recommendations)

=============================================================================
